---- MODULE Spec2Model ----
(***************************************************************************)
(* IronTrack: the query layer (app/queries.py) over the triathlon schema,  *)
(* the demo seeding script (app/seed_demo.py) and the callers that drive   *)
(* them.  The database is the state; every query-layer function is one     *)
(* action that runs its statements inside its `with conn:` transaction and *)
(* leaves its return value (or the exception it raised) in `ret` and the    *)
(* connection events it went through in `log`.  `pending` is the position  *)
(* of the dashboard's Add Workout handler between its two calls, and        *)
(* `forms` is a history variable: the forms that handler has saved, each   *)
(* with the id of the workout it became.  `cli` is the command-line tool:  *)
(* where it stands, the user id it resolved and the menu choice it read    *)
(* last.                                                                   *)
(*                                                                         *)
(* Representation                                                          *)
(*   - a nullable column or an Optional argument is <<>> (NULL / None) or  *)
(*     <<v>>;                                                              *)
(*   - a date is its proleptic Gregorian ordinal (date.toordinal()), so    *)
(*     ordinal 1 is a Monday;                                              *)
(*   - a time of day is minutes after midnight;                            *)
(*   - a float / NUMERIC is a decimal with one fractional digit, held as   *)
(*     the integer number of tenths (Scale = 10).                          *)
(***************************************************************************)
EXTENDS Integers, Sequences, FiniteSets, Bags, TLC

VARIABLES Users, Locations, Gear, Workouts, Workout_Gear, seq, ret, prev,
          log, pending, forms, cli

vars == <<Users, Locations, Gear, Workouts, Workout_Gear, seq, ret, prev,
          log, pending, forms, cli>>

tables == <<Users, Locations, Gear, Workouts, Workout_Gear>>

\* the stored tables; `prev` is a history variable holding them as they were
\* when the last call started
Snapshot ==
    [ Users |-> Users, Locations |-> Locations, Gear |-> Gear,
      Workouts |-> Workouts, Workout_Gear |-> Workout_Gear, seq |-> seq ]

(***************************************************************************)
(* Bounds of the model.                                                    *)
(***************************************************************************)
MaxWorkouts == 2

MaxRows == 5

MaxDays == 3

MaxGear == 1

(***************************************************************************)
(* Optional values and decimals.                                           *)
(***************************************************************************)
None == <<>>

Some(v) == <<v>>

Val(x) == x[1]

Scale == 10

Num(n) == n * Scale

Mul(a, b) == (a * b) \div Scale

Div(a, b) == (a * Scale) \div b

Thousand == Num(1000)

(***************************************************************************)
(* Dates.  date_trunc('week', d) is the Monday on or before d.             *)
(***************************************************************************)
Weekday(d) == (d - 1) % 7

date_trunc_week(d) == d - Weekday(d)

\* the days the model draws dates from: a Saturday and a Sunday, then the
\* next week's Monday, Tuesday, ...
Dates == 6 .. (5 + MaxDays)

(***************************************************************************)
(* Reference data: the three workout types.                                *)
(***************************************************************************)
Workout_Types ==
    { [workout_type_id |-> 1, name |-> "swim"],
      [workout_type_id |-> 2, name |-> "bike"],
      [workout_type_id |-> 3, name |-> "run"] }

\* text order of the sport names, as ORDER BY wt.name compares them
NameRank(n) == CASE n = "bike" -> 1 [] n = "run" -> 2 [] n = "swim" -> 3

(***************************************************************************)
(* Generic helpers.                                                        *)
(***************************************************************************)
\* the sum of f[x] over the rows x of S
RECURSIVE SumOver(_, _)
SumOver(S, f) ==
    IF S = {} THEN 0
    ELSE LET x == CHOOSE y \in S : TRUE
         IN  f[x] + SumOver(S \ {x}, f)

\* the sequence listing S in the strict total order lt (lt[<<x, y>>]: x first)
RECURSIVE SortBy(_, _)
SortBy(S, lt) ==
    IF S = {} THEN <<>>
    ELSE LET x == CHOOSE y \in S : \A z \in S \ {y} : lt[<<y, z>>]
         IN  <<x>> \o SortBy(S \ {x}, lt)

Range(s) == { s[i] : i \in DOMAIN s }

(***************************************************************************)
(* Return values.                                                          *)
(***************************************************************************)
Returned(op, args, value) ==
    [op |-> op, args |-> args, ok |-> TRUE, error |-> "", value |-> value]

Raised(op, args, error) ==
    [op |-> op, args |-> args, ok |-> FALSE, error |-> error, value |-> None]

\* the result of one statement: the table it leaves and the error it raised
Stmt(rows, error) == [rows |-> rows, error |-> error]

(***************************************************************************)
(* Connections.  Every function opens its own connection (get_connection), *)
(* runs its statements inside `with conn:`, which commits when the block   *)
(* ends normally and rolls back when it raises, and closes the connection  *)
(* in its `finally`.                                                       *)
(***************************************************************************)
\* n calls of cur.execute
RECURSIVE executes(_)
executes(n) == IF n = 0 THEN <<>> ELSE <<"execute">> \o executes(n - 1)

\* the connection closed only when its transaction was committed
connection_closed_after_commit_only(n, outcome) ==
    <<"connect">> \o executes(n)
                  \o (IF outcome = "commit" THEN <<outcome, "close">> ELSE <<outcome>>)

\* the events of one connection on which n statements were started and the
\* block ended with `outcome`
connection(n, outcome) == <<"connect">> \o executes(n) \o <<outcome, "close">>

\* the block's exit that leaves what the failed block wrote in place
with_conn_commits_always(before, r) == r.rows

\* `with conn:` around statements that turned the table `before` into r.rows,
\* r.error being what they raised: the table that is stored afterwards
with_conn(before, r) == IF r.error = "" THEN r.rows ELSE before

\* the event `with conn:` ends with
with_conn_outcome(error) == IF error = "" THEN "commit" ELSE "rollback"

(***************************************************************************)
(* Initial state: the schema exists, Workout_Types is loaded, and the one  *)
(* user the fixture generator expects ('John') has been created by hand.   *)
(***************************************************************************)
Init ==
    /\ Users = { [user_id |-> 1, username |-> "John"] }
    /\ Locations = {}
    /\ Gear = {}
    /\ Workouts = {}
    /\ Workout_Gear = EmptyBag
    /\ seq = [user |-> 1, location |-> 0, gear |-> 0, workout |-> 0]
    /\ ret = Returned("init", None, None)
    /\ log = <<>>
    /\ pending = None
    /\ forms = {}
    /\ cli = [pc |-> "prompt", user_id |-> None, choice |-> None]
    /\ prev = [ Users |-> Users, Locations |-> Locations, Gear |-> Gear,
                Workouts |-> Workouts, Workout_Gear |-> Workout_Gear, seq |-> seq ]

(***************************************************************************)
(* Lookups.                                                                *)
(***************************************************************************)
\* a name in lower case, for the names the callers type
Lower(name) ==
    CASE name = "John" -> "john"
      [] name = "Run" -> "run"
      [] OTHER -> name

\* the lookup comparing the names without regard to letter case
user_id_by_username_ignoring_case(username) ==
    LET rows == { u \in Users : Lower(u.username) = Lower(username) }
    IN  IF rows # {} THEN Some((CHOOSE u \in rows : TRUE).user_id) ELSE None

\* SELECT user_id FROM Users WHERE username = %s; fetchone() or None
user_id_by_username(username) ==
    LET rows == { u \in Users : u.username = username }
    IN  IF rows # {} THEN Some((CHOOSE u \in rows : TRUE).user_id) ELSE None

\* the lookup answering a miss with the id of 'run'
workout_type_id_by_name_default_run(name) ==
    LET rows == { t \in Workout_Types : t.name = name }
    IN  IF rows # {} THEN Some((CHOOSE t \in rows : TRUE).workout_type_id) ELSE Some(3)

\* the lookup answering a miss with 0 instead of None
workout_type_id_by_name_zero_on_miss(name) ==
    LET rows == { t \in Workout_Types : t.name = name }
    IN  IF rows # {} THEN Some((CHOOSE t \in rows : TRUE).workout_type_id) ELSE Some(0)

\* SELECT workout_type_id FROM Workout_Types WHERE name = %s; fetchone() or None
workout_type_id_by_name(name) ==
    LET rows == { t \in Workout_Types : t.name = name }
    IN  IF rows # {} THEN Some((CHOOSE t \in rows : TRUE).workout_type_id) ELSE None

get_user_id_by_username(username) ==
    /\ ret' = Returned("get_user_id_by_username", username,
                       user_id_by_username(username))
    /\ log' = connection(1, "commit")
    /\ prev' = Snapshot
    /\ UNCHANGED <<tables, seq>>

get_workout_type_id_by_name(name) ==
    /\ ret' = Returned("get_workout_type_id_by_name", name,
                       workout_type_id_by_name(name))
    /\ log' = connection(1, "commit")
    /\ prev' = Snapshot
    /\ UNCHANGED <<tables, seq>>

\* the Workouts JOIN Workout_Types rows: each workout with its type's name
WorkoutsJoinTypes ==
    { [w |-> w, name |-> t.name] :
        <<w, t>> \in { p \in Workouts \X Workout_Types :
                         p[1].workout_type_id = p[2].workout_type_id } }

(***************************************************************************)
(* insert_workout                                                          *)
(***************************************************************************)
\* the conversion with a factor of 100
KmToMBroken(distance_km) ==
    IF distance_km = None THEN None ELSE Some(Mul(Val(distance_km), Num(100)))

\* distance_m = distance_km * 1000.0 (None stays None)
KmToM(distance_km) ==
    IF distance_km = None THEN None ELSE Some(Mul(Val(distance_km), Thousand))

\* the row with user_id and workout_type_id swapped in the parameter tuple
WorkoutRowSwapped(id, type_id, a) ==
    [ workout_id |-> id,
      user_id |-> type_id,
      workout_type_id |-> a.user_id,
      location_id |-> a.location_id,
      workout_date |-> a.workout_date,
      start_time |-> a.start_time,
      duration_seconds |-> a.duration_seconds,
      distance_m |-> KmToM(a.distance_km),
      elevation_gain_m |-> a.elevation_gain_m,
      calories_kcal |-> a.calories_kcal,
      avg_heart_rate_bpm |-> a.avg_heart_rate_bpm,
      avg_cadence |-> a.avg_cadence,
      avg_power_w |-> a.avg_power_w,
      effort_level |-> a.effort_level,
      gear_id |-> a.gear_id,
      notes |-> a.notes ]

\* the row INSERT INTO Workouts ... RETURNING workout_id stores
WorkoutRow(id, type_id, a) ==
    [ workout_id |-> id,
      user_id |-> a.user_id,
      workout_type_id |-> type_id,
      location_id |-> a.location_id,
      workout_date |-> a.workout_date,
      start_time |-> a.start_time,
      duration_seconds |-> a.duration_seconds,
      distance_m |-> KmToM(a.distance_km),
      elevation_gain_m |-> a.elevation_gain_m,
      calories_kcal |-> a.calories_kcal,
      avg_heart_rate_bpm |-> a.avg_heart_rate_bpm,
      avg_cadence |-> a.avg_cadence,
      avg_power_w |-> a.avg_power_w,
      effort_level |-> a.effort_level,
      gear_id |-> a.gear_id,
      notes |-> a.notes ]

\* what the INSERT INTO Workouts statement raises for a row: its user, its
\* location and its primary gear must exist, and its start time must be a
\* time of day ("" when it raises nothing)
Workouts_insert_error(row) ==
    IF row.start_time # None /\ Val(row.start_time) \notin 0 .. 1439
    THEN "DataError"
    ELSE IF \/ ~(\E u \in Users : u.user_id = row.user_id)
            \/ row.location_id # None
                 /\ ~(\E l \in Locations : l.location_id = Val(row.location_id))
            \/ row.gear_id # None
                 /\ ~(\E g \in Gear : g.gear_id = Val(row.gear_id))
    THEN "ForeignKeyViolation"
    ELSE ""

\* the statement replacing the user's stored workout of the same date
insert_workouts_row_upsert(rows, row) ==
    IF Workouts_insert_error(row) # ""
    THEN Stmt(rows, Workouts_insert_error(row))
    ELSE Stmt({ w \in rows : ~(w.user_id = row.user_id /\ w.workout_date = row.workout_date) }
                \cup { row }, "")

\* the INSERT on the table Workouts: the table it leaves and what it raised
insert_workouts_row(rows, row) ==
    IF Workouts_insert_error(row) # ""
    THEN Stmt(rows, Workouts_insert_error(row))
    ELSE Stmt(rows \cup { row }, "")

\* the lookup called inside the block that holds the insert's connection
insert_workout_log_nested(known, error) ==
    IF known
    THEN <<"connect">> \o connection(1, "commit")
                      \o <<"execute", with_conn_outcome(error), "close">>
    ELSE <<"connect">> \o connection(1, "commit") \o <<"rollback", "close">>

\* get_workout_type_id_by_name opens, uses and closes its own connection;
\* the insert's connection is opened after it has returned a type id
insert_workout_log(known, error) ==
    IF known
    THEN connection(1, "commit") \o connection(1, with_conn_outcome(error))
    ELSE connection(1, "commit")

insert_workout(a) ==
    LET workout_type_id == workout_type_id_by_name(a.workout_type_name)
        workout_id == seq.workout + 1
        r == insert_workouts_row(Workouts, WorkoutRow(workout_id, Val(workout_type_id), a))
    IN  /\ prev' = Snapshot
        /\ IF workout_type_id = None
           THEN /\ ret' = Raised("insert_workout", a, "ValueError: Unknown workout type")
                /\ log' = insert_workout_log(FALSE, "")
                /\ UNCHANGED <<tables, seq>>
           ELSE /\ Workouts' = with_conn(Workouts, r)
                \* a row that fails its foreign keys has drawn its id already
                /\ seq' = IF r.error = "DataError" THEN seq
                          ELSE [seq EXCEPT !.workout = workout_id]
                /\ ret' = IF r.error = ""
                          THEN Returned("insert_workout", a, workout_id)
                          ELSE Raised("insert_workout", a, r.error)
                /\ log' = insert_workout_log(TRUE, r.error)
                /\ UNCHANGED <<Users, Locations, Gear, Workout_Gear>>

(***************************************************************************)
(* insert_gear                                                             *)
(***************************************************************************)
\* the row INSERT INTO Gear ... RETURNING gear_id stores
GearRow(id, g) ==
    [ gear_id |-> id,
      user_id |-> g.user_id,
      gear_type |-> g.gear_type,
      brand |-> g.brand,
      model |-> g.model,
      purchase_date |-> g.purchase_date,
      retired |-> g.retired ]

\* what the INSERT INTO Gear statement raises for a row: its owner must exist
Gear_insert_error(row) ==
    IF \E u \in Users : u.user_id = row.user_id THEN "" ELSE "ForeignKeyViolation"

\* the INSERT on the table Gear: the table it leaves and what it raised
insert_gear_row(rows, row) ==
    IF Gear_insert_error(row) # ""
    THEN Stmt(rows, Gear_insert_error(row))
    ELSE Stmt(rows \cup { row }, "")

insert_gear(g) ==
    LET gear_id == seq.gear + 1
        r == insert_gear_row(Gear, GearRow(gear_id, g))
    IN  /\ Gear' = with_conn(Gear, r)
        /\ seq' = [seq EXCEPT !.gear = gear_id]
        /\ ret' = IF r.error = ""
                  THEN Returned("insert_gear", g, gear_id)
                  ELSE Raised("insert_gear", g, r.error)
        /\ log' = connection(1, with_conn_outcome(r.error))
        /\ prev' = Snapshot
        /\ UNCHANGED <<Users, Locations, Workouts, Workout_Gear>>

(***************************************************************************)
(* attach_gear_to_workout                                                  *)
(***************************************************************************)
WorkoutGearRow(workout_id, gear_id) ==
    [workout_id |-> workout_id, gear_id |-> gear_id]

\* Workout_Gear's key: a row with this (workout_id, gear_id) is already stored
Workout_Gear_conflict(rows, workout_id, gear_id) ==
    BagIn(WorkoutGearRow(workout_id, gear_id), rows)

\* Workout_Gear's foreign keys: the workout and the gear item both exist
Workout_Gear_references_ok(workout_id, gear_id) ==
    /\ \E w \in Workouts : w.workout_id = workout_id
    /\ \E g \in Gear : g.gear_id = gear_id

\* the same INSERT without its ON CONFLICT clause
insert_workout_gear_no_on_conflict(rows, workout_id, gear_id) ==
    IF ~Workout_Gear_references_ok(workout_id, gear_id)
    THEN Stmt(rows, "ForeignKeyViolation")
    ELSE IF Workout_Gear_conflict(rows, workout_id, gear_id)
    THEN Stmt(rows, "UniqueViolation")
    ELSE Stmt(rows (+) SetToBag({ WorkoutGearRow(workout_id, gear_id) }), "")

\* INSERT INTO Workout_Gear (workout_id, gear_id) VALUES (%s, %s)
\* ON CONFLICT DO NOTHING;
insert_workout_gear(rows, workout_id, gear_id) ==
    IF ~Workout_Gear_references_ok(workout_id, gear_id)
    THEN Stmt(rows, "ForeignKeyViolation")
    ELSE IF Workout_Gear_conflict(rows, workout_id, gear_id)
    THEN Stmt(rows, "")
    ELSE Stmt(rows (+) SetToBag({ WorkoutGearRow(workout_id, gear_id) }), "")

\* the loop left after its first statement
attach_loop_first_id_only(rows, workout_id, gids) ==
    IF gids = {} THEN [rows |-> rows, error |-> "", executed |-> 0]
    ELSE LET gid == CHOOSE g \in gids : TRUE
             r == insert_workout_gear(rows, workout_id, gid)
         IN  [rows |-> r.rows, error |-> r.error, executed |-> 1]

\* for gid in set(gear_ids): cur.execute(INSERT ...), stopping at the first
\* statement that raises
\* (.executed counts the statements that were started)
RECURSIVE attach_loop(_, _, _)
attach_loop(rows, workout_id, gids) ==
    IF gids = {} THEN [rows |-> rows, error |-> "", executed |-> 0]
    ELSE LET gid == CHOOSE g \in gids : TRUE
             r == insert_workout_gear(rows, workout_id, gid)
         IN  IF r.error # ""
             THEN [rows |-> r.rows, error |-> r.error, executed |-> 1]
             ELSE [attach_loop(r.rows, workout_id, gids \ {gid})
                     EXCEPT !.executed = @ + 1]

attach_gear_to_workout(workout_id, gear_ids) ==
    LET args == [workout_id |-> workout_id, gear_ids |-> gear_ids]
        r == attach_loop(Workout_Gear, workout_id, Range(gear_ids))
    IN  /\ prev' = Snapshot
        /\ IF gear_ids = <<>>
           THEN \* if not gear_ids: return, before any connection is opened
                /\ ret' = Returned("attach_gear_to_workout", args, None)
                /\ log' = <<>>
                /\ UNCHANGED <<tables, seq>>
           ELSE /\ Workout_Gear' = with_conn(Workout_Gear, r)
                /\ ret' = IF r.error = ""
                          THEN Returned("attach_gear_to_workout", args, None)
                          ELSE Raised("attach_gear_to_workout", args, r.error)
                /\ log' = connection(r.executed, with_conn_outcome(r.error))
                /\ UNCHANGED <<Users, Locations, Gear, Workouts, seq>>

(***************************************************************************)
(* clear_user_data (app/populate_workouts.py): three DELETEs in one        *)
(* transaction.  `db` is the tables as the transaction sees them, with the *)
(* error the last statement raised.                                        *)
(***************************************************************************)
\* the rows of the bag `rows` that are in the set `keep`
BagRestrict(rows, keep) == [r \in BagToSet(rows) \cap keep |-> rows[r]]

\* deleting a workout or a gear item leaves its join rows in place
Workout_Gear_no_cascade(rows, workouts, gear) == rows

\* ON DELETE CASCADE on both of Workout_Gear's references: the join rows
\* left once only `workouts` and `gear` remain
Workout_Gear_cascade(rows, workouts, gear) ==
    BagRestrict(rows,
                { r \in BagToSet(rows) :
                    /\ \E w \in workouts : w.workout_id = r.workout_id
                    /\ \E g \in gear : g.gear_id = r.gear_id })

\* DELETE FROM Workout_Gear WHERE workout_id IN
\*   (SELECT workout_id FROM Workouts WHERE user_id = %s)
delete_workout_gear_of_user(db, user_id) ==
    LET own == { w.workout_id : w \in { x \in db.Workouts : x.user_id = user_id } }
    IN  [db EXCEPT !.Workout_Gear =
            BagRestrict(@, { r \in BagToSet(@) : r.workout_id \notin own })]

\* DELETE FROM Workouts WHERE user_id = %s
delete_workouts_of_user(db, user_id) ==
    LET left == { w \in db.Workouts : w.user_id # user_id }
    IN  [db EXCEPT !.Workouts = left,
                   !.Workout_Gear = Workout_Gear_cascade(@, left, db.Gear)]

\* DELETE FROM Gear WHERE user_id = %s.  A workout that is left may still
\* name a deleted item as its primary gear; on_delete is what the reference
\* Workouts.gear_id does then: "SET NULL" clears it, "NO ACTION" makes the
\* statement raise.
delete_gear_of_user(db, user_id, on_delete) ==
    LET left == { g \in db.Gear : g.user_id # user_id }
        gone == { g.gear_id : g \in db.Gear \ left }
        naming == { w \in db.Workouts : w.gear_id # None /\ Val(w.gear_id) \in gone }
    IN  IF naming # {} /\ on_delete = "NO ACTION"
        THEN [db EXCEPT !.error = "ForeignKeyViolation"]
        ELSE [db EXCEPT !.Gear = left,
                        !.Workouts = (@ \ naming)
                                       \cup { [w EXCEPT !.gear_id = None] : w \in naming },
                        !.Workout_Gear = Workout_Gear_cascade(@, db.Workouts, left)]

clear_user_data(user_id, on_delete) ==
    LET db0 == [ Workouts |-> Workouts, Gear |-> Gear,
                 Workout_Gear |-> Workout_Gear, error |-> "" ]
        db1 == delete_workout_gear_of_user(db0, user_id)
        db2 == delete_workouts_of_user(db1, user_id)
        db3 == delete_gear_of_user(db2, user_id, on_delete)
    IN  /\ Workouts' = with_conn(Workouts, [rows |-> db3.Workouts, error |-> db3.error])
        /\ Gear' = with_conn(Gear, [rows |-> db3.Gear, error |-> db3.error])
        /\ Workout_Gear' =
              with_conn(Workout_Gear, [rows |-> db3.Workout_Gear, error |-> db3.error])
        /\ ret' = IF db3.error = ""
                  THEN Returned("clear_user_data", Some(user_id), None)
                  ELSE Raised("clear_user_data", Some(user_id), db3.error)
        /\ log' = connection(3, with_conn_outcome(db3.error))
        /\ prev' = Snapshot
        /\ UNCHANGED <<Users, Locations, seq>>

(***************************************************************************)
(* seed_demo_user_and_workout (app/seed_demo.py), one transaction          *)
(***************************************************************************)
\* the lookup finding nothing, whatever is stored
case_track_locations_not_found == {}

\* SELECT location_id FROM Locations WHERE name = 'Case Track' AND
\* location_type = 'track'
case_track_locations ==
    { l \in Locations : l.name = "Case Track" /\ l.location_type = "track" }

seed_demo_user_and_workout(today) ==
    LET existing == user_id_by_username("cam")
        user_id == IF existing = None THEN seq.user + 1 ELSE Val(existing)
        locs == case_track_locations
        location_id == IF locs # {} THEN (CHOOSE l \in locs : TRUE).location_id
                       ELSE seq.location + 1
        workout_type_id == Val(workout_type_id_by_name("run"))
        workout_id == seq.workout + 1
        row == [ workout_id |-> workout_id,
                 user_id |-> user_id,
                 workout_type_id |-> workout_type_id,
                 location_id |-> Some(location_id),
                 workout_date |-> today,
                 start_time |-> Some(450),
                 duration_seconds |-> 3600,
                 distance_m |-> Some(Num(10000)),
                 elevation_gain_m |-> Some(Num(50)),
                 calories_kcal |-> Some(600),
                 avg_heart_rate_bpm |-> Some(140),
                 avg_cadence |-> Some(Num(170)),
                 avg_power_w |-> None,
                 effort_level |-> 7,
                 gear_id |-> None,
                 notes |-> Some("Easy morning run from Python") ]
    IN  /\ Users' = IF existing = None
                    THEN Users \cup { [user_id |-> user_id, username |-> "cam"] }
                    ELSE Users
        /\ Locations' = IF locs # {} THEN Locations
                        ELSE Locations \cup
                               { [ location_id |-> location_id, name |-> "Case Track",
                                   location_type |-> "track", city |-> "Cleveland",
                                   state |-> "OH" ] }
        /\ Workouts' = Workouts \cup { row }
        /\ seq' = [seq EXCEPT !.user = IF existing = None THEN user_id ELSE @,
                              !.location = IF locs # {} THEN @ ELSE location_id,
                              !.workout = workout_id]
        /\ ret' = Returned("seed_demo_user_and_workout", Some(today), None)
        /\ log' = connection(4 + (IF existing = None THEN 0 ELSE 1)
                               + (IF locs # {} THEN 0 ELSE 1), "commit")
        /\ prev' = Snapshot
        /\ UNCHANGED <<Gear, Workout_Gear>>

(***************************************************************************)
(* get_weekly_volume_by_sport                                              *)
(***************************************************************************)
\* w.workout_date BETWEEN %s AND %s, with the end bound left out
date_between_exclusive(d, start_date, end_date) == start_date <= d /\ d < end_date

\* w.workout_date BETWEEN %s AND %s
date_between(d, start_date, end_date) == start_date <= d /\ d <= end_date

\* the WHERE clause widened to the whole of every week the range touches
weekly_from_where_whole_weeks(user_id, start_date, end_date) ==
    { j \in WorkoutsJoinTypes :
        /\ j.w.user_id = user_id
        /\ date_trunc_week(j.w.workout_date) + 6 >= start_date
        /\ date_trunc_week(j.w.workout_date) <= end_date
        /\ start_date <= end_date }

\* FROM Workouts w JOIN Workout_Types wt ... WHERE w.user_id = %s AND ... BETWEEN
weekly_from_where(user_id, start_date, end_date) ==
    { j \in WorkoutsJoinTypes :
        /\ j.w.user_id = user_id
        /\ date_between(j.w.workout_date, start_date, end_date) }

\* a week that starts on Sunday
week_start_sunday(j) == j.w.workout_date - (j.w.workout_date % 7)

\* date_trunc('week', w.workout_date)::date AS week_start
week_start_of(j) == date_trunc_week(j.w.workout_date)

\* GROUP BY week_start, wt.name
weekly_group_key(j) == <<week_start_of(j), j.name>>

\* SUM(w.distance_m): NULL distances are skipped, no distance at all is NULL
sum_distance_m(members) ==
    LET known == { j \in members : j.w.distance_m # None }
    IN  IF known = {} THEN None
        ELSE Some(SumOver(known, [j \in known |-> Val(j.w.distance_m)]))

\* the total left in meters
weekly_total_distance_in_m(members) ==
    LET total == sum_distance_m(members)
    IN  IF total = None THEN 0 ELSE Val(total)

\* COALESCE(SUM(w.distance_m) / 1000.0, 0) AS total_distance_km
weekly_total_distance_km(members) ==
    LET total == sum_distance_m(members)
    IN  IF total = None THEN 0 ELSE Div(Val(total), Thousand)

\* COALESCE(SUM(w.duration_seconds), 0) AS total_duration_sec
weekly_total_duration_sec(members) ==
    SumOver(members, [j \in members |-> j.w.duration_seconds])

weekly_rows(user_id, start_date, end_date) ==
    LET matching == weekly_from_where(user_id, start_date, end_date)
        keys == { weekly_group_key(j) : j \in matching }
        members(k) == { j \in matching : weekly_group_key(j) = k }
    IN  { [ week_start |-> k[1],
            workout_type |-> k[2],
            total_distance_km |-> weekly_total_distance_km(members(k)),
            total_duration_sec |-> weekly_total_duration_sec(members(k)) ] :
          k \in keys }

\* ORDER BY week_start ASC, wt.name
weekly_order(a, b) ==
    \/ a.week_start < b.week_start
    \/ a.week_start = b.week_start /\ NameRank(a.workout_type) < NameRank(b.workout_type)

get_weekly_volume_by_sport(user_id, start_date, end_date) ==
    LET args == [user_id |-> user_id, start_date |-> start_date, end_date |-> end_date]
        rows == weekly_rows(user_id, start_date, end_date)
        sorted == SortBy(rows, [p \in rows \X rows |-> weekly_order(p[1], p[2])])
    IN  /\ ret' = Returned("get_weekly_volume_by_sport", args, sorted)
        /\ prev' = Snapshot
        /\ log' = connection(1, "commit")
        /\ UNCHANGED <<tables, seq>>

(***************************************************************************)
(* get_total_distance_per_gear, over the gear_distance view                *)
(***************************************************************************)
\* the view: every Gear row with the summed distance_m of the workouts joined
\* to it through Workout_Gear (0 when there is none)
gear_distance ==
    LET attached(g) ==
            { w \in Workouts :
                BagIn(WorkoutGearRow(w.workout_id, g.gear_id), Workout_Gear) }
        meters(g, w) ==
            IF w.distance_m = None THEN 0
            ELSE CopiesIn(WorkoutGearRow(w.workout_id, g.gear_id), Workout_Gear)
                   * Val(w.distance_m)
    IN  { [ gear_id |-> g.gear_id,
            user_id |-> g.user_id,
            gear_type |-> g.gear_type,
            brand |-> g.brand,
            model |-> g.model,
            total_distance_m |->
                SumOver(attached(g), [w \in attached(g) |-> meters(g, w)]) ] :
          g \in Gear }

\* FROM gear_distance, with the WHERE clause left out
gear_distance_all_users(user_id) == gear_distance

\* FROM gear_distance WHERE user_id = %s
gear_distance_where(user_id) == { v \in gear_distance : v.user_id = user_id }

\* ORDER BY total_distance_m, gear_id (ascending)
gear_order_asc(a, b) ==
    \/ a.total_distance_m < b.total_distance_m
    \/ a.total_distance_m = b.total_distance_m /\ a.gear_id < b.gear_id

\* ORDER BY total_distance_m DESC, gear_id
gear_order(a, b) ==
    \/ a.total_distance_m > b.total_distance_m
    \/ a.total_distance_m = b.total_distance_m /\ a.gear_id < b.gear_id

\* SELECT gear_id, gear_type, brand, model, (total_distance_m / 1000.0)
gear_select(v) ==
    [ gear_id |-> v.gear_id,
      gear_type |-> v.gear_type,
      brand |-> v.brand,
      model |-> v.model,
      total_distance_km |-> Div(v.total_distance_m, Thousand) ]

get_total_distance_per_gear(user_id) ==
    LET found == gear_distance_where(user_id)
        sorted == SortBy(found, [p \in found \X found |-> gear_order(p[1], p[2])])
    IN  /\ ret' = Returned("get_total_distance_per_gear", Some(user_id),
                           [i \in DOMAIN sorted |-> gear_select(sorted[i])])
        /\ prev' = Snapshot
        /\ log' = connection(1, "commit")
        /\ UNCHANGED <<tables, seq>>

(***************************************************************************)
(* fetch_workouts and get_recent_workouts                                  *)
(***************************************************************************)
\* ORDER BY w.workout_date DESC, w.start_time DESC without NULLS LAST: a
\* descending sort puts NULL first
listing_before_nulls_first(a, b) ==
    \/ a.w.workout_date > b.w.workout_date
    \/ /\ a.w.workout_date = b.w.workout_date
       /\ b.w.start_time # None
       /\ (a.w.start_time = None \/ Val(a.w.start_time) > Val(b.w.start_time))

\* ORDER BY w.workout_date DESC, w.start_time DESC NULLS LAST: a sorts
\* strictly before b
listing_before(a, b) ==
    \/ a.w.workout_date > b.w.workout_date
    \/ /\ a.w.workout_date = b.w.workout_date
       /\ a.w.start_time # None
       /\ (b.w.start_time = None \/ Val(a.w.start_time) > Val(b.w.start_time))

\* every sequence an ORDER BY may return: the rows of S, each once, no row
\* before one that sorts strictly before it, before[<<a, b>>] (rows that tie
\* come in any order)
Orderings(S, before) ==
    { s \in [1 .. Cardinality(S) -> S] :
        /\ \A i, j \in DOMAIN s : i # j => s[i] # s[j]
        /\ \A i, j \in DOMAIN s : i < j => ~before[<<s[j], s[i]>>] }

\* (w.distance_m / 1000.0) AS distance_km
MToKm(distance_m) ==
    IF distance_m = None THEN None ELSE Some(Div(Val(distance_m), Thousand))

\* if workout_type_name: "All" taken for a sport name
type_filter_given_all_is_a_name(workout_type_name) ==
    /\ workout_type_name # None
    /\ Val(workout_type_name) # ""

\* if workout_type_name and workout_type_name != "All"
type_filter_given(workout_type_name) ==
    /\ workout_type_name # None
    /\ Val(workout_type_name) # ""
    /\ Val(workout_type_name) # "All"

\* base_query without the end_date clause
fetch_where_no_end_date(user_id, workout_type_name, start_date, end_date) ==
    { j \in WorkoutsJoinTypes :
        /\ j.w.user_id = user_id
        /\ type_filter_given(workout_type_name) => j.name = Val(workout_type_name)
        /\ start_date # None => j.w.workout_date >= Val(start_date) }

\* base_query plus the AND clauses appended for the filters that are given
fetch_where(user_id, workout_type_name, start_date, end_date) ==
    { j \in WorkoutsJoinTypes :
        /\ j.w.user_id = user_id
        /\ type_filter_given(workout_type_name) => j.name = Val(workout_type_name)
        /\ start_date # None => j.w.workout_date >= Val(start_date)
        /\ end_date # None => j.w.workout_date <= Val(end_date) }

fetch_select(j) ==
    [ workout_id |-> j.w.workout_id,
      workout_date |-> j.w.workout_date,
      start_time |-> j.w.start_time,
      workout_type |-> j.name,
      distance_km |-> MToKm(j.w.distance_m),
      duration_seconds |-> j.w.duration_seconds,
      effort_level |-> j.w.effort_level,
      notes |-> j.w.notes ]

fetch_workouts(user_id, workout_type_name, start_date, end_date) ==
    LET args == [ user_id |-> user_id, workout_type_name |-> workout_type_name,
                  start_date |-> start_date, end_date |-> end_date ]
        found == fetch_where(user_id, workout_type_name, start_date, end_date)
    IN  /\ \E s \in Orderings(found, [p \in found \X found |-> listing_before(p[1], p[2])]) :
              ret' = Returned("fetch_workouts", args,
                              [i \in DOMAIN s |-> fetch_select(s[i])])
        /\ prev' = Snapshot
        /\ log' = connection(1, "commit")
        /\ UNCHANGED <<tables, seq>>

\* w.start_time::text, 'HH:MM:SS' as its six digits; '' is the empty sequence
\* of characters, a text that is there, unlike the absent value None
time_text(t) ==
    LET h == t \div 60
        m == t % 60
    IN  <<h \div 10, h % 10, m \div 10, m % 10, 0, 0>>

\* the start time selected as the column is, without COALESCE(..., '')
recent_select_start_time_as_stored(j) ==
    [ workout_date |-> j.w.workout_date,
      start_time |-> j.w.start_time,
      workout_type |-> j.name,
      distance_km |-> MToKm(j.w.distance_m),
      duration_seconds |-> j.w.duration_seconds,
      effort_level |-> j.w.effort_level,
      notes |-> j.w.notes ]

recent_select(j) ==
    [ workout_date |-> j.w.workout_date,
      start_time |-> IF j.w.start_time = None THEN Some(<<>>)
                     ELSE Some(time_text(Val(j.w.start_time))),
      workout_type |-> j.name,
      distance_km |-> MToKm(j.w.distance_m),
      duration_seconds |-> j.w.duration_seconds,
      effort_level |-> j.w.effort_level,
      notes |-> j.w.notes ]

get_recent_workouts(user_id, limit) ==
    LET args == [user_id |-> user_id, limit |-> limit]
        found == { j \in WorkoutsJoinTypes : j.w.user_id = user_id }
    IN  /\ \E s \in Orderings(found, [p \in found \X found |-> listing_before(p[1], p[2])]) :
              LET n == IF limit < Len(s) THEN limit ELSE Len(s)
              IN  ret' = Returned("get_recent_workouts", args,
                                  [i \in 1 .. n |-> recent_select(s[i])])
        /\ prev' = Snapshot
        /\ log' = connection(1, "commit")
        /\ UNCHANGED <<tables, seq>>

(***************************************************************************)
(* The per-sport listings, over the views run_workouts, bike_workouts and  *)
(* swim_workouts.  The columns a view derives from distance_m and          *)
(* duration_seconds (distance in miles or yards, pace, speed) are left     *)
(* out; the others are the workout's own.                                  *)
(***************************************************************************)
\* the view of one sport: the workouts of that sport
sport_workouts(sport) == { j \in WorkoutsJoinTypes : j.name = sport }

\* FROM <sport>_workouts WHERE user_id = %s, plus the date clauses given
view_where(sport, user_id, start_date, end_date) ==
    { j \in sport_workouts(sport) :
        /\ j.w.user_id = user_id
        /\ start_date # None => j.w.workout_date >= Val(start_date)
        /\ end_date # None => j.w.workout_date <= Val(end_date) }

run_select(j) ==
    [ workout_id |-> j.w.workout_id,
      workout_date |-> j.w.workout_date,
      start_time |-> j.w.start_time,
      duration_seconds |-> j.w.duration_seconds,
      elevation_gain_m |-> j.w.elevation_gain_m,
      calories_kcal |-> j.w.calories_kcal,
      avg_heart_rate_bpm |-> j.w.avg_heart_rate_bpm,
      avg_cadence_spm |-> j.w.avg_cadence,
      effort_level |-> j.w.effort_level,
      notes |-> j.w.notes ]

bike_select(j) ==
    [ workout_id |-> j.w.workout_id,
      workout_date |-> j.w.workout_date,
      start_time |-> j.w.start_time,
      duration_seconds |-> j.w.duration_seconds,
      elevation_gain_m |-> j.w.elevation_gain_m,
      calories_kcal |-> j.w.calories_kcal,
      avg_heart_rate_bpm |-> j.w.avg_heart_rate_bpm,
      avg_cadence_rpm |-> j.w.avg_cadence,
      avg_power_w |-> j.w.avg_power_w,
      effort_level |-> j.w.effort_level,
      notes |-> j.w.notes ]

swim_select(j) ==
    [ workout_id |-> j.w.workout_id,
      workout_date |-> j.w.workout_date,
      start_time |-> j.w.start_time,
      duration_seconds |-> j.w.duration_seconds,
      calories_kcal |-> j.w.calories_kcal,
      avg_heart_rate_bpm |-> j.w.avg_heart_rate_bpm,
      effort_level |-> j.w.effort_level,
      notes |-> j.w.notes ]

\* the three functions: the same statement over their own view and columns
fetch_workouts_view(sport, user_id, start_date, end_date) ==
    LET op == CASE sport = "run" -> "fetch_run_workouts_view"
                [] sport = "bike" -> "fetch_bike_workouts_view"
                [] sport = "swim" -> "fetch_swim_workouts_view"
        args == [user_id |-> user_id, start_date |-> start_date, end_date |-> end_date]
        found == view_where(sport, user_id, start_date, end_date)
        select(j) == CASE sport = "run" -> run_select(j)
                       [] sport = "bike" -> bike_select(j)
                       [] sport = "swim" -> swim_select(j)
    IN  /\ \E s \in Orderings(found, [p \in found \X found |-> listing_before(p[1], p[2])]) :
              ret' = Returned(op, args, [i \in DOMAIN s |-> select(s[i])])
        /\ prev' = Snapshot
        /\ log' = connection(1, "commit")
        /\ UNCHANGED <<tables, seq>>

fetch_run_workouts_view(user_id, start_date, end_date) ==
    fetch_workouts_view("run", user_id, start_date, end_date)

fetch_bike_workouts_view(user_id, start_date, end_date) ==
    fetch_workouts_view("bike", user_id, start_date, end_date)

fetch_swim_workouts_view(user_id, start_date, end_date) ==
    fetch_workouts_view("swim", user_id, start_date, end_date)

(***************************************************************************)
(* list_users and list_workout_types                                       *)
(***************************************************************************)
\* ORDER BY username: 'John' and 'cam' compare by their bytes under the C
\* collation (capitals first) and by their letters under a language one
username_before(collation, a, b) ==
    IF collation = "C"
    THEN a.username = "John" /\ b.username = "cam"
    ELSE a.username = "cam" /\ b.username = "John"

list_users(collation) ==
    /\ \E s \in Orderings(Users, [p \in Users \X Users |->
                                      username_before(collation, p[1], p[2])]) :
          ret' = Returned("list_users", None,
                          [i \in DOMAIN s |-> <<s[i].user_id, s[i].username>>])
    /\ prev' = Snapshot
    /\ log' = connection(1, "commit")
    /\ UNCHANGED <<tables, seq>>

list_workout_types ==
    LET sorted == SortBy(Workout_Types,
                         [p \in Workout_Types \X Workout_Types |->
                             p[1].workout_type_id < p[2].workout_type_id])
    IN  /\ ret' = Returned("list_workout_types", None,
                           [i \in DOMAIN sorted |->
                               <<sorted[i].workout_type_id, sorted[i].name>>])
        /\ prev' = Snapshot
        /\ log' = connection(1, "commit")
        /\ UNCHANGED <<tables, seq>>

(***************************************************************************)
(* The callers' inputs.                                                    *)
(***************************************************************************)
UserIds == { u.user_id : u \in Users }

GearIds == { g.gear_id : g \in Gear }

WorkoutIds == { w.workout_id : w \in Workouts }

\* the sport names a caller may pass: the three known ones and one that has
\* no Workout_Types row
SportNames == { "swim", "bike", "run", "yoga" }

\* insert_workout's arguments as the command-line tool passes them, with the
\* fields the dashboard and the fixture generator also set
WorkoutArgs(user_id, sport, workout_date, start_time, minutes, distance_km, gear_id) ==
    [ user_id |-> user_id,
      workout_type_name |-> sport,
      workout_date |-> workout_date,
      duration_seconds |-> minutes * 60,
      distance_km |-> Some(distance_km),
      effort_level |-> 6,
      location_id |-> None,
      start_time |-> start_time,
      elevation_gain_m |-> None,
      calories_kcal |-> None,
      avg_heart_rate_bpm |-> None,
      avg_cadence |-> None,
      avg_power_w |-> None,
      gear_id |-> gear_id,
      notes |-> None ]

\* insert_gear's arguments
GearArgs(user_id, gear_type) ==
    [ user_id |-> user_id,
      gear_type |-> gear_type,
      brand |-> None,
      model |-> None,
      purchase_date |-> Some(6),
      retired |-> FALSE ]

\* the gear-id lists a caller may pass: up to two ids, a repeated id and an
\* id no gear item has included
GearIdLists ==
    LET ids == GearIds \cup { seq.gear + 1 }
    IN  { <<>> } \cup { <<g>> : g \in ids }
                 \cup { <<p[1], p[2]>> : p \in { q \in ids \X ids : q[1] <= q[2] } }

(***************************************************************************)
(* The write path with gear: workouts, gear, join rows and gear totals.    *)
(***************************************************************************)
RowsWritten == seq.workout + seq.gear + BagCardinality(Workout_Gear)

AddWorkout ==
    /\ RowsWritten < MaxRows
    /\ \E u \in UserIds, km \in { 50, 105 },
          g \in { None } \cup { Some(x) : x \in GearIds } :
          insert_workout(WorkoutArgs(u, "run", 8, None, 60, km, g))
    /\ UNCHANGED <<pending, forms, cli>>

AddGear ==
    /\ RowsWritten < MaxRows
    /\ \E u \in UserIds : insert_gear(GearArgs(u, "shoe"))
    /\ UNCHANGED <<pending, forms, cli>>

AttachGear ==
    /\ RowsWritten < MaxRows
    /\ \E w \in WorkoutIds, ids \in GearIdLists : attach_gear_to_workout(w, ids)
    /\ UNCHANGED <<pending, forms, cli>>

SeedDemo ==
    /\ RowsWritten < MaxRows
    /\ seed_demo_user_and_workout(8)
    /\ UNCHANGED <<pending, forms, cli>>

GearTotals ==
    /\ \E u \in UserIds : get_total_distance_per_gear(u)
    /\ UNCHANGED <<pending, forms, cli>>

Next == AddWorkout \/ AddGear \/ AttachGear \/ SeedDemo \/ GearTotals

Spec == Init /\ [][Next]_vars

(***************************************************************************)
(* The weekly summary: workouts on the days of Dates, and the aggregation  *)
(* over every range of those days (start after end included).              *)
(***************************************************************************)
WeeklyAddWorkout ==
    /\ seq.workout < MaxWorkouts
    /\ \E u \in UserIds, sport \in { "run", "swim" }, d \in Dates,
          e \in { <<30, 50>>, <<60, 105>> } :
          insert_workout(WorkoutArgs(u, sport, d, None, e[1], e[2], None))
    /\ UNCHANGED <<pending, forms, cli>>

WeeklySeedDemo ==
    /\ seq.workout < MaxWorkouts
    /\ seed_demo_user_and_workout(8)
    /\ UNCHANGED <<pending, forms, cli>>

WeeklyVolume ==
    /\ \E u \in UserIds, start_date \in Dates, end_date \in Dates :
           get_weekly_volume_by_sport(u, start_date, end_date)
    /\ UNCHANGED <<pending, forms, cli>>

NextWeekly == WeeklyAddWorkout \/ WeeklySeedDemo \/ WeeklyVolume

SpecWeekly == Init /\ [][NextWeekly]_vars

(***************************************************************************)
(* The listings: workouts of every sport name and, for runs, on a Sunday   *)
(* and the Monday after it, with and without a start time; then the two    *)
(* listing queries.                                                        *)
(***************************************************************************)
ListingArgs(u) ==
    { WorkoutArgs(u, sport, 8, None, 60, km, None) :
        <<sport, km>> \in SportNames \X { 50, 105 } }
    \cup
    { WorkoutArgs(u, sport, d, t, 60, 50, None) :
        <<sport, d, t>> \in { "run" } \X { 7, 8 } \X { None, Some(420), Some(1020) } }

ListingAddWorkout ==
    /\ seq.workout < MaxWorkouts
    /\ \E u \in UserIds : \E a \in ListingArgs(u) : insert_workout(a)
    /\ UNCHANGED <<pending, forms, cli>>

ListingSeedDemo ==
    /\ seq.workout < MaxWorkouts
    /\ seed_demo_user_and_workout(8)
    /\ UNCHANGED <<pending, forms, cli>>

FetchWorkouts ==
    /\ \E u \in UserIds, sport \in { None, Some(""), Some("All"), Some("run") },
          start_date \in { None, Some(8) }, end_date \in { None, Some(7) } :
           fetch_workouts(u, sport, start_date, end_date)
    /\ UNCHANGED <<pending, forms, cli>>

RecentWorkouts ==
    /\ \E u \in UserIds, limit \in 1 .. MaxWorkouts : get_recent_workouts(u, limit)
    /\ UNCHANGED <<pending, forms, cli>>

\* the weekly summary from the Monday back to the Sunday before it
ListingWeeklyVolume ==
    /\ \E u \in UserIds : get_weekly_volume_by_sport(u, 8, 7)
    /\ UNCHANGED <<pending, forms, cli>>

NextListing ==
    \/ ListingAddWorkout
    \/ ListingSeedDemo
    \/ FetchWorkouts
    \/ RecentWorkouts
    \/ ListingWeeklyVolume

SpecListing == Init /\ [][NextListing]_vars

(***************************************************************************)
(* The reset: two users' workouts and gear, join rows within and across    *)
(* the users, and the fixture generator's clear_user_data for either user. *)
(***************************************************************************)
ResetSeedDemo ==
    /\ RowsWritten < MaxRows
    /\ seed_demo_user_and_workout(8)
    /\ UNCHANGED <<pending, forms, cli>>

ResetAddWorkout ==
    /\ RowsWritten < MaxRows
    /\ \E u \in UserIds, g \in { None } \cup { Some(x) : x \in GearIds } :
          insert_workout(WorkoutArgs(u, "run", 8, None, 60, 50, g))
    /\ UNCHANGED <<pending, forms, cli>>

ResetAddGear ==
    /\ RowsWritten < MaxRows
    /\ \E u \in UserIds : insert_gear(GearArgs(u, "shoe"))
    /\ UNCHANGED <<pending, forms, cli>>

ResetAttachGear ==
    /\ RowsWritten < MaxRows
    /\ \E w \in WorkoutIds, ids \in GearIdLists : attach_gear_to_workout(w, ids)
    /\ UNCHANGED <<pending, forms, cli>>

ResetClearUserData ==
    /\ \E u \in UserIds, on_delete \in { "SET NULL", "NO ACTION" } :
          clear_user_data(u, on_delete)
    /\ UNCHANGED <<pending, forms, cli>>

NextReset ==
    \/ ResetSeedDemo
    \/ ResetAddWorkout
    \/ ResetAddGear
    \/ ResetAttachGear
    \/ ResetClearUserData

SpecReset == Init /\ [][NextReset]_vars

(***************************************************************************)
(* The query layer on its own: every function of app/queries.py, the       *)
(* writes with arguments the database accepts and with arguments it        *)
(* refuses.                                                                *)
(***************************************************************************)
\* a user id no Users row has
UnknownUserId == seq.user + 1

\* insert_workout's arguments: a run and a ride that are stored, then an
\* unknown sport, an unknown user, a start time of '25:00' and a primary
\* gear that does not exist
OpsWorkoutArgs ==
    { WorkoutArgs(u, sport, 8, None, 60, 50, None) :
        <<u, sport>> \in UserIds \X { "run", "bike", "yoga" } }
    \cup
    { WorkoutArgs(UnknownUserId, "run", 8, None, 60, 50, None) }
    \cup
    { WorkoutArgs(u, "run", 8, Some(1500), 60, 50, None) : u \in UserIds }
    \cup
    { WorkoutArgs(u, "run", 8, None, 60, 50, Some(seq.gear + 1)) : u \in UserIds }

OpsInsertWorkout ==
    /\ seq.workout < MaxWorkouts
    /\ \E a \in OpsWorkoutArgs : insert_workout(a)
    /\ UNCHANGED <<pending, forms, cli>>

OpsInsertGear ==
    /\ seq.gear < MaxGear
    /\ \E u \in UserIds \cup { UnknownUserId } : insert_gear(GearArgs(u, "shoe"))
    /\ UNCHANGED <<pending, forms, cli>>

OpsAttachGear ==
    /\ BagCardinality(Workout_Gear) < MaxWorkouts
    /\ \E w \in WorkoutIds, ids \in GearIdLists : attach_gear_to_workout(w, ids)
    /\ UNCHANGED <<pending, forms, cli>>

OpsListUsers ==
    /\ \E collation \in { "C", "en_US" } : list_users(collation)
    /\ UNCHANGED <<pending, forms, cli>>

OpsListWorkoutTypes ==
    /\ list_workout_types
    /\ UNCHANGED <<pending, forms, cli>>

\* the names typed at the username prompt
TypedUsernames == { "John", "john", "cam" }

OpsLookupUser ==
    /\ \E username \in TypedUsernames : get_user_id_by_username(username)
    /\ UNCHANGED <<pending, forms, cli>>

OpsLookupWorkoutType ==
    /\ \E name \in { "run", "Run", "yoga" } : get_workout_type_id_by_name(name)
    /\ UNCHANGED <<pending, forms, cli>>

OpsRecentWorkouts ==
    /\ \E u \in UserIds : get_recent_workouts(u, MaxWorkouts)
    /\ UNCHANGED <<pending, forms, cli>>

OpsWeeklyVolume ==
    /\ \E u \in UserIds : get_weekly_volume_by_sport(u, 8, 8)
    /\ UNCHANGED <<pending, forms, cli>>

OpsGearTotals ==
    /\ \E u \in UserIds : get_total_distance_per_gear(u)
    /\ UNCHANGED <<pending, forms, cli>>

OpsFetchWorkouts ==
    /\ \E u \in UserIds : fetch_workouts(u, None, None, None)
    /\ UNCHANGED <<pending, forms, cli>>

OpsFetchRunView ==
    /\ \E u \in UserIds : fetch_run_workouts_view(u, None, None)
    /\ UNCHANGED <<pending, forms, cli>>

OpsFetchBikeView ==
    /\ \E u \in UserIds : fetch_bike_workouts_view(u, None, None)
    /\ UNCHANGED <<pending, forms, cli>>

OpsFetchSwimView ==
    /\ \E u \in UserIds : fetch_swim_workouts_view(u, None, None)
    /\ UNCHANGED <<pending, forms, cli>>

NextOps ==
    \/ OpsInsertWorkout
    \/ OpsInsertGear
    \/ OpsAttachGear
    \/ OpsListUsers
    \/ OpsListWorkoutTypes
    \/ OpsLookupUser
    \/ OpsLookupWorkoutType
    \/ OpsRecentWorkouts
    \/ OpsWeeklyVolume
    \/ OpsGearTotals
    \/ OpsFetchWorkouts
    \/ OpsFetchRunView
    \/ OpsFetchBikeView
    \/ OpsFetchSwimView

SpecOps == Init /\ [][NextOps]_vars

(***************************************************************************)
(* The dashboard's Add Workout form (app/app.py, render_add_workout).  A   *)
(* form is the values of its widgets when Save workout is pressed; the     *)
(* handler cleans them, calls insert_workout and then, on its own          *)
(* connection, attach_gear_to_workout.                                     *)
(***************************************************************************)
\* str.strip() on the texts typed into the form
strip(text) ==
    CASE text = "  " -> ""
      [] text = " easy " -> "easy"
      [] OTHER -> text

\* text or None: the empty text counts as false
text_or_none(text) == IF text = "" THEN None ELSE Some(text)

\* the time of day the TIME column reads from the text (minutes after
\* midnight; '25:00' is not a time of day and is refused by the INSERT)
time_of_text(text) ==
    CASE text = "07:00" -> 420
      [] text = "25:00" -> 1500

\* the value kept whatever it is
positive_or_none_keeps_zero(x) == Some(x)

\* x if x > 0 else None
positive_or_none(x) == IF x > 0 THEN Some(x) ELSE None

\* the power widget is drawn for a bike workout only; without it
\* avg_power_w_val keeps its initial 0.0
power_input(form) ==
    IF form.workout_type = "bike" THEN form.avg_power_w_val ELSE 0

\* avg_power_w_val if (workout_type == "bike" and avg_power_w_val > 0) else None
power_val(form) ==
    IF form.workout_type = "bike" THEN positive_or_none(power_input(form)) ELSE None

\* start_time_str.strip() or None, as the time the database reads from it
start_time_clean(form) ==
    LET cleaned == text_or_none(strip(form.start_time_str))
    IN  IF cleaned = None THEN None ELSE Some(time_of_text(Val(cleaned)))

\* selected_gear_ids[0] if selected_gear_ids else None
primary_gear_id(form) ==
    IF form.selected_gear_ids = <<>> THEN None ELSE Some(form.selected_gear_ids[1])

\* the arguments the handler passes to insert_workout
submit_args(user_id, form) ==
    [ user_id |-> user_id,
      workout_type_name |-> form.workout_type,
      workout_date |-> form.workout_date,
      duration_seconds |-> form.duration_minutes * 60,
      distance_km |-> Some(form.distance_km),
      effort_level |-> form.effort_level,
      location_id |-> None,
      start_time |-> start_time_clean(form),
      elevation_gain_m |-> positive_or_none(form.elevation_gain_m),
      calories_kcal |-> positive_or_none(form.calories_kcal),
      avg_heart_rate_bpm |-> positive_or_none(form.avg_hr),
      avg_cadence |-> positive_or_none(form.avg_cadence),
      avg_power_w |-> power_val(form),
      gear_id |-> primary_gear_id(form),
      notes |-> text_or_none(strip(form.notes)) ]

\* the first call of the handler: workout_id = insert_workout(...); when it
\* raises, the except branch is taken and the handler is over
submit_insert(user_id, form) ==
    /\ pending = None
    /\ insert_workout(submit_args(user_id, form))
    /\ pending' = IF ret'.ok
                  THEN Some([ workout_id |-> ret'.value,
                              gear_ids |-> form.selected_gear_ids ])
                  ELSE None
    /\ forms' = IF ret'.ok
                THEN forms \cup { [workout_id |-> ret'.value, form |-> form] }
                ELSE forms

\* the except branch undoing the insert: the workout is deleted again
submit_except_deletes_workout(workouts, workout_id) ==
    { w \in workouts : w.workout_id # workout_id }

\* except Exception as e: st.error(...): the message is shown, the table
\* Workouts is left as the calls left it
submit_except(workouts, workout_id) == workouts

\* the second call of the handler: attach_gear_to_workout(workout_id,
\* selected_gear_ids).  With gear selected the call needs a connection,
\* which the database may refuse (psycopg2.connect raises OperationalError);
\* a call that raises leaves its transaction rolled back and is followed by
\* the except branch.
submit_attach(reachable) ==
    LET p == Val(pending)
        args == [workout_id |-> p.workout_id, gear_ids |-> p.gear_ids]
        r == attach_loop(Workout_Gear, p.workout_id, Range(p.gear_ids))
        raises == p.gear_ids # <<>> /\ (~reachable \/ r.error # "")
    IN  /\ pending # None
        /\ pending' = None
        /\ UNCHANGED forms
        /\ IF ~raises
           THEN attach_gear_to_workout(p.workout_id, p.gear_ids)
           ELSE /\ prev' = Snapshot
                /\ ret' = Raised("attach_gear_to_workout", args,
                                 IF reachable THEN r.error ELSE "OperationalError")
                /\ log' = IF reachable THEN connection(r.executed, "rollback")
                          ELSE <<>>
                /\ Workouts' = submit_except(Workouts, p.workout_id)
                /\ UNCHANGED <<Users, Locations, Gear, Workout_Gear, seq>>

\* the dashboard process ends between the two calls: nothing more is done
process_stops ==
    /\ pending # None
    /\ pending' = None
    /\ UNCHANGED <<tables, seq, ret, prev, log, forms>>

\* the Gear page's form: insert_gear with the texts stripped, blank as None
submit_gear(user_id, gear_type, brand, model) ==
    /\ insert_gear([ user_id |-> user_id,
                     gear_type |-> gear_type,
                     brand |-> text_or_none(strip(brand)),
                     model |-> text_or_none(strip(model)),
                     purchase_date |-> Some(8),
                     retired |-> FALSE ])
    /\ UNCHANGED <<pending, forms, cli>>

(***************************************************************************)
(* The dashboard: workouts saved through the Add Workout form, gear added  *)
(* on the Gear page, and the listings of the View Workouts page and of the *)
(* command-line tool.                                                      *)
(***************************************************************************)
\* what st.multiselect can return over the given options: distinct ids, in
\* the order they were picked (here none, one, or two with the newer gear
\* picked first)
Selections(options) ==
    { <<>> } \cup { <<g>> : g \in options }
             \cup { <<p[1], p[2]>> : p \in { q \in options \X options : q[1] > q[2] } }

\* a form with the optional metrics at their initial 0 and the two texts as
\* given
BlankForm(sport, start_time_str, notes, selected) ==
    [ workout_type |-> sport,
      workout_date |-> 8,
      start_time_str |-> start_time_str,
      duration_minutes |-> 60,
      distance_km |-> Num(5),
      effort_level |-> 6,
      elevation_gain_m |-> 0,
      calories_kcal |-> 0,
      avg_hr |-> 0,
      avg_cadence |-> 0,
      avg_power_w_val |-> 0,
      selected_gear_ids |-> selected,
      notes |-> notes ]

\* a form with every optional metric and both texts filled in
FilledForm(sport, selected) ==
    [ workout_type |-> sport,
      workout_date |-> 8,
      start_time_str |-> "07:00",
      duration_minutes |-> 60,
      distance_km |-> Num(5),
      effort_level |-> 6,
      elevation_gain_m |-> Num(120),
      calories_kcal |-> 450,
      avg_hr |-> 140,
      avg_cadence |-> Num(85),
      avg_power_w_val |-> Num(200),
      selected_gear_ids |-> selected,
      notes |-> " easy " ]

\* the form offering every gear item, whoever owns it
gear_map_keys_of_all_users(user_id) == { v.gear_id : v \in gear_distance }

\* the gear the form offers: the keys of gear_map, read with
\* get_total_distance_per_gear when the page is run
gear_map_keys(user_id) == { v.gear_id : v \in gear_distance_where(user_id) }

\* the forms submitted
Forms(user_id) ==
    { BlankForm("swim", "", "  ", <<>>) }
      \cup UNION { { BlankForm("run", "", "", selected),
                     BlankForm("bike", "  ", "  ", selected),
                     FilledForm("bike", selected) } :
                   selected \in Selections(gear_map_keys(user_id)) }

FormSubmitInsert ==
    /\ seq.workout < MaxWorkouts
    /\ \E u \in UserIds : \E form \in Forms(u) : submit_insert(u, form)
    /\ UNCHANGED cli

FormSubmitAttach ==
    /\ \E reachable \in BOOLEAN : submit_attach(reachable)
    /\ UNCHANGED cli

FormProcessStops ==
    /\ process_stops
    /\ UNCHANGED cli

FormSubmitGear ==
    /\ seq.gear < MaxGear
    /\ \E u \in UserIds : submit_gear(u, "shoe", "  ", "")

FormFetchWorkouts ==
    /\ \E u \in UserIds : fetch_workouts(u, None, None, None)
    /\ UNCHANGED <<pending, forms, cli>>

FormRecentWorkouts ==
    /\ \E u \in UserIds : get_recent_workouts(u, MaxWorkouts)
    /\ UNCHANGED <<pending, forms, cli>>

FormFetchRunView ==
    /\ \E u \in UserIds : fetch_run_workouts_view(u, None, None)
    /\ UNCHANGED <<pending, forms, cli>>

FormFetchBikeView ==
    /\ \E u \in UserIds : fetch_bike_workouts_view(u, None, None)
    /\ UNCHANGED <<pending, forms, cli>>

FormFetchSwimView ==
    /\ \E u \in UserIds : fetch_swim_workouts_view(u, None, None)
    /\ UNCHANGED <<pending, forms, cli>>

NextForm ==
    \/ FormSubmitInsert
    \/ FormSubmitAttach
    \/ FormProcessStops
    \/ FormSubmitGear
    \/ FormFetchWorkouts
    \/ FormRecentWorkouts
    \/ FormFetchRunView
    \/ FormFetchBikeView
    \/ FormFetchSwimView

SpecForm == Init /\ [][NextForm]_vars

(***************************************************************************)
(* The fixture generator's step for one workout (app/populate_workouts.py, *)
(* repopulate_trending_workouts): the same two calls as the dashboard's    *)
(* handler, with the gear chosen among the items create_demo_gear has      *)
(* inserted for the user.  Here those are the user's stored items, the     *)
(* two oldest standing for the two items of the workout's sport.           *)
(***************************************************************************)
USERNAME == "John"

\* gear_by_sport[workout_type]: the ids create_demo_gear returned, in the
\* order they were inserted
gear_by_sport(user_id) ==
    LET own == { g.gear_id : g \in { x \in Gear : x.user_id = user_id } }
        ids == SortBy(own, [p \in own \X own |-> p[1] < p[2]])
    IN  IF Len(ids) <= 2 THEN ids ELSE SubSeq(ids, 1, 2)

\* the lists choose_gear_for_workout can return: a random item of the sport
\* for a run or a bike workout; the first item, sometimes with the second,
\* for a swim
choose_gear_for_workout(workout_type, sport_gear) ==
    IF sport_gear = <<>> THEN { <<>> }
    ELSE IF workout_type \in { "run", "bike" }
    THEN { <<sport_gear[i]>> : i \in DOMAIN sport_gear }
    ELSE { <<sport_gear[1]>> }
           \cup (IF Len(sport_gear) > 1 THEN { <<sport_gear[1], sport_gear[2]>> } ELSE {})

\* primary_gear_id = gear_ids[0] if gear_ids else None; workout_id =
\* insert_workout(...).  An exception ends the script.
repopulate_insert(workout_type, gear_ids) ==
    LET user_id == user_id_by_username(USERNAME)
        a == [ user_id |-> Val(user_id),
               workout_type_name |-> workout_type,
               workout_date |-> 8,
               duration_seconds |-> 60 * 60,
               distance_km |-> Some(Num(5)),
               effort_level |-> 6,
               location_id |-> None,
               start_time |-> Some(420),
               elevation_gain_m |-> Some(Num(120)),
               calories_kcal |-> Some(450),
               avg_heart_rate_bpm |-> Some(140),
               avg_cadence |-> Some(Num(85)),
               avg_power_w |-> IF workout_type = "bike" THEN Some(Num(200)) ELSE None,
               gear_id |-> IF gear_ids = <<>> THEN None ELSE Some(gear_ids[1]),
               notes |-> Some("Easy run") ]
    IN  /\ pending = None
        /\ user_id # None
        /\ insert_workout(a)
        /\ pending' = IF ret'.ok
                      THEN Some([workout_id |-> ret'.value, gear_ids |-> gear_ids])
                      ELSE None
        /\ UNCHANGED <<forms, cli>>

(***************************************************************************)
(* Gear in use: two users (the seeding script creates the second), gear    *)
(* added for either on the Gear page, and workouts saved with gear by the  *)
(* dashboard's form and by the fixture generator.                          *)
(***************************************************************************)
UseSeedDemo ==
    /\ RowsWritten < MaxRows
    /\ pending = None
    /\ seed_demo_user_and_workout(8)
    /\ UNCHANGED <<pending, forms, cli>>

UseSubmitGear ==
    /\ RowsWritten < MaxRows
    /\ \E u \in UserIds : submit_gear(u, "shoe", "  ", "")

UseSubmitInsert ==
    /\ RowsWritten < MaxRows
    /\ \E u \in UserIds : \E selected \in Selections(gear_map_keys(u)) :
          submit_insert(u, BlankForm("run", "", "", selected))
    /\ UNCHANGED cli

UseRepopulateInsert ==
    /\ RowsWritten < MaxRows
    /\ \E workout_type \in { "run", "swim" } :
          \E gear_ids \in choose_gear_for_workout(
                              workout_type,
                              gear_by_sport(Val(user_id_by_username(USERNAME)))) :
              repopulate_insert(workout_type, gear_ids)

UseAttach ==
    /\ \E reachable \in BOOLEAN : submit_attach(reachable)
    /\ UNCHANGED cli

NextUse ==
    \/ UseSeedDemo
    \/ UseSubmitGear
    \/ UseSubmitInsert
    \/ UseRepopulateInsert
    \/ UseAttach

SpecUse == Init /\ [][NextUse]_vars

(***************************************************************************)
(* The command-line tool (app/cli.py).  cli.pc is "prompt" while            *)
(* prompt_username loops, "menu" while main waits for a choice,            *)
(* "add_workout" while add_workout reads its inputs after listing the      *)
(* sports, and "ended" once the process is over.  Nothing in cli.py        *)
(* catches an exception: one that a menu action raises ends the process.   *)
(***************************************************************************)
\* datetime.strptime(text, "%Y-%m-%d").date() as the date's ordinal; None for
\* a text that is no date, where strptime raises ValueError
strptime(text) ==
    CASE text = "0001-01-06" -> Some(6)
      [] text = "0001-01-08" -> Some(8)
      [] OTHER -> None

\* if user_id is not None: return user_id; else the prompt is repeated
prompt_username_next(found) ==
    IF found # None
    THEN [pc |-> "menu", user_id |-> found, choice |-> None]
    ELSE [pc |-> "prompt", user_id |-> None, choice |-> None]

\* one round of the loop of prompt_username
prompt_username(username) ==
    /\ cli.pc = "prompt"
    /\ get_user_id_by_username(strip(username))
    /\ cli' = prompt_username_next(ret'.value)
    /\ UNCHANGED <<pending, forms>>

\* choice "1", the first half of add_workout: the sports are listed
add_workout_lists_types ==
    /\ cli.pc = "menu"
    /\ list_workout_types
    /\ cli' = [cli EXCEPT !.pc = "add_workout", !.choice = Some("1")]
    /\ UNCHANGED <<pending, forms>>

\* the second half of add_workout: the inputs are parsed and insert_workout
\* is called; a date that does not parse and an insert_workout that raises
\* both end the process
add_workout(workout_type, date_str, start_time_str, notes) ==
    LET workout_date == strptime(strip(date_str))
        start_time == text_or_none(strip(start_time_str))
        a == [ user_id |-> Val(cli.user_id),
               workout_type_name |-> Lower(strip(workout_type)),
               workout_date |-> Val(workout_date),
               duration_seconds |-> 60 * 60,
               distance_km |-> Some(Num(5)),
               effort_level |-> 6,
               location_id |-> None,
               start_time |-> IF start_time = None THEN None
                              ELSE Some(time_of_text(Val(start_time))),
               elevation_gain_m |-> None,
               calories_kcal |-> None,
               avg_heart_rate_bpm |-> None,
               avg_cadence |-> None,
               avg_power_w |-> None,
               gear_id |-> None,
               notes |-> text_or_none(strip(notes)) ]
    IN  /\ cli.pc = "add_workout"
        /\ UNCHANGED <<pending, forms>>
        /\ IF workout_date = None
           THEN /\ cli' = [cli EXCEPT !.pc = "ended"]
                /\ UNCHANGED <<tables, seq, ret, prev, log>>
           ELSE /\ insert_workout(a)
                /\ cli' = [cli EXCEPT !.pc = IF ret'.ok THEN "menu" ELSE "ended"]

\* choice "2": int(input(...) or "10"), 10 as well when that is no number
show_recent_workouts(limit) ==
    /\ cli.pc = "menu"
    /\ get_recent_workouts(Val(cli.user_id), limit)
    /\ cli' = [cli EXCEPT !.choice = Some("2")]
    /\ UNCHANGED <<pending, forms>>

\* choice "3": the two dates are parsed, then the weekly volume is read
show_weekly_volume(start_str, end_str) ==
    LET start_date == strptime(strip(start_str))
        end_date == strptime(strip(end_str))
    IN  /\ cli.pc = "menu"
        /\ UNCHANGED <<pending, forms>>
        /\ IF start_date = None \/ end_date = None
           THEN /\ cli' = [cli EXCEPT !.pc = "ended", !.choice = Some("3")]
                /\ UNCHANGED <<tables, seq, ret, prev, log>>
           ELSE /\ get_weekly_volume_by_sport(Val(cli.user_id), Val(start_date),
                                              Val(end_date))
                /\ cli' = [cli EXCEPT !.choice = Some("3")]

\* choice "4"
show_gear_totals ==
    /\ cli.pc = "menu"
    /\ get_total_distance_per_gear(Val(cli.user_id))
    /\ cli' = [cli EXCEPT !.choice = Some("4")]
    /\ UNCHANGED <<pending, forms>>

\* choice "0": Goodbye, break
main_exit ==
    /\ cli.pc = "menu"
    /\ cli' = [cli EXCEPT !.pc = "ended", !.choice = Some("0")]
    /\ UNCHANGED <<tables, seq, ret, prev, log, pending, forms>>

\* any other choice: Invalid choice, please try again
main_invalid_choice(choice) ==
    /\ cli.pc = "menu"
    /\ choice \notin { "0", "1", "2", "3", "4" }
    /\ cli' = [cli EXCEPT !.choice = Some(choice)]
    /\ UNCHANGED <<tables, seq, ret, prev, log, pending, forms>>

(***************************************************************************)
(* A session of the command-line tool, with the seeding script run beside  *)
(* it (the prompt asks for that when the user is not found).               *)
(***************************************************************************)
CliPromptUsername == \E username \in TypedUsernames : prompt_username(username)

CliAddWorkoutListsTypes ==
    /\ seq.workout < MaxWorkouts
    /\ add_workout_lists_types

CliAddWorkout ==
    \E workout_type \in { "Run", "bike", "yoga" },
       date_str \in { "0001-01-08", "8 Jan" },
       start_time_str \in { "", "07:00" } :
        add_workout(workout_type, date_str, start_time_str, " easy ")

CliShowRecentWorkouts == \E limit \in { 1, 10 } : show_recent_workouts(limit)

CliShowWeeklyVolume ==
    \E start_str \in { "0001-01-06", "" } : show_weekly_volume(start_str, "0001-01-08")

CliShowGearTotals == show_gear_totals

CliExit == main_exit

CliInvalidChoice == \E choice \in { "5", "" } : main_invalid_choice(choice)

CliSeedDemo ==
    /\ seq.workout < MaxWorkouts
    /\ seed_demo_user_and_workout(8)
    /\ UNCHANGED <<pending, forms, cli>>

NextCli ==
    \/ CliPromptUsername
    \/ CliAddWorkoutListsTypes
    \/ CliAddWorkout
    \/ CliShowRecentWorkouts
    \/ CliShowWeeklyVolume
    \/ CliShowGearTotals
    \/ CliExit
    \/ CliInvalidChoice
    \/ CliSeedDemo

SpecCli == Init /\ [][NextCli]_vars

(***************************************************************************)
(* Properties.                                                             *)
(***************************************************************************)
\* C1: Workout_Gear holds every (workout, gear) pair at most once, whatever
\* attach_gear_to_workout calls were made (repeated ids in one list, lists
\* overlapping earlier calls); and a call all of whose pairs were already
\* stored returns normally and leaves Workout_Gear as it was.
C1_AttachKeepsPairsUnique ==
    /\ \A r \in BagToSet(Workout_Gear) : CopiesIn(r, Workout_Gear) = 1
    /\ ( /\ ret.op = "attach_gear_to_workout"
         /\ \A g \in Range(ret.args.gear_ids) :
               BagIn(WorkoutGearRow(ret.args.workout_id, g), prev.Workout_Gear) )
       => (ret.ok /\ Workout_Gear = prev.Workout_Gear)

\* a call that names one id twice, for a pair an earlier call had stored
C1_Witness ==
    /\ ret.op = "attach_gear_to_workout"
    /\ Len(ret.args.gear_ids) = 2
    /\ ret.args.gear_ids[1] = ret.args.gear_ids[2]
    /\ BagIn(WorkoutGearRow(ret.args.workout_id, ret.args.gear_ids[1]), prev.Workout_Gear)
    /\ ret.ok

\* C2: insert_workout with a sport name that has no Workout_Types row raises
\* the unknown-workout-type error and writes nothing: no Workouts row is
\* added, no identifier is drawn, every table is as it was before the call.
C2_UnknownSportRaisesAndWritesNothing ==
    ( /\ ret.op = "insert_workout"
      /\ ~(\E t \in Workout_Types : t.name = ret.args.workout_type_name) )
    => /\ ~ret.ok
       /\ ret.error = "ValueError: Unknown workout type"
       /\ Snapshot = prev

\* 'yoga' is refused while the user already has a stored workout
C2_Witness ==
    /\ ret.op = "insert_workout"
    /\ ret.args.workout_type_name = "yoga"
    /\ ~ret.ok
    /\ \E w \in Workouts : w.user_id = ret.args.user_id

\* C5: every stored workout's workout_type_id is the id of a Workout_Types
\* row (swim, bike or run).
C5_WorkoutTypeIsValid ==
    \A w \in Workouts :
        \E t \in Workout_Types :
            /\ t.workout_type_id = w.workout_type_id
            /\ t.name \in { "swim", "bike", "run" }

\* a seeded run beside a workout of another sport stored by insert_workout
C5_Witness ==
    /\ \E w \in Workouts : w.notes = Some("Easy morning run from Python")
    /\ \E w \in Workouts : w.notes = None /\ w.workout_type_id # 3

C4_InsertAddsOneOwnedRow ==
    (ret.op = "insert_workout" /\ ret.ok)
    => \E w \in Workouts :
          /\ w.workout_id = ret.value
          /\ w.user_id = ret.args.user_id
          /\ w \notin prev.Workouts
          /\ Workouts = prev.Workouts \cup { w }
          /\ \A o \in Workouts \ { w } : o.workout_id # ret.value
          /\ \E j \in fetch_where(ret.args.user_id, None, None, None) : j.w = w

\* the insert happens while another user's workout is already stored
C4_Witness ==
    /\ ret.op = "insert_workout"
    /\ ret.ok
    /\ \E o \in prev.Workouts : o.user_id # ret.args.user_id

\* the sport name of a stored workout, read off Workout_Types
SportOf(w) == (CHOOSE t \in Workout_Types : t.workout_type_id = w.workout_type_id).name

\* the workouts of user u dated within [s, e]
InRange(u, s, e) ==
    { w \in Workouts : w.user_id = u /\ s <= w.workout_date /\ w.workout_date <= e }

\* those of them of one sport in the seven days from week_start on
InWeek(u, s, e, week_start, sport) ==
    { w \in InRange(u, s, e) :
        /\ SportOf(w) = sport
        /\ week_start <= w.workout_date
        /\ w.workout_date <= week_start + 6 }

\* C6: get_weekly_volume_by_sport(user, start, end) has a row for a
\* (week-start, sport) pair exactly when the user has a workout of that sport
\* dated within [start, end] in that week: every row has such a workout, every
\* such workout has its row, and with no workout in the range the result is
\* the empty sequence.
C6_WeeklyRowIffWorkoutInRange ==
    ret.op = "get_weekly_volume_by_sport"
    => LET u == ret.args.user_id
           s == ret.args.start_date
           e == ret.args.end_date
           rows == ret.value
       IN  /\ \A i \in DOMAIN rows :
                  InWeek(u, s, e, rows[i].week_start, rows[i].workout_type) # {}
           /\ \A w \in InRange(u, s, e) :
                  \E i \in DOMAIN rows :
                      w \in InWeek(u, s, e, rows[i].week_start, rows[i].workout_type)
           /\ (InRange(u, s, e) = {} => rows = <<>>)

\* an empty result for a user whose only workouts lie outside a range that is
\* not empty
C6_Witness ==
    /\ ret.op = "get_weekly_volume_by_sport"
    /\ ret.args.start_date < ret.args.end_date
    /\ ret.value = <<>>
    /\ \E w \in Workouts : w.user_id = ret.args.user_id

\* C7: every week_start returned is a Monday; each workout in the range is
\* covered by exactly one row of its sport, whose week_start is the Monday on
\* or before its date (at most 6 days earlier); no two rows share
\* (week_start, sport), so two workouts of one sport in one Monday-to-Sunday
\* week are in one row.
C7_WeekStartIsMonday ==
    ret.op = "get_weekly_volume_by_sport"
    => LET u == ret.args.user_id
           s == ret.args.start_date
           e == ret.args.end_date
           rows == ret.value
           covers(i, w) ==
               /\ rows[i].workout_type = SportOf(w)
               /\ rows[i].week_start <= w.workout_date
               /\ w.workout_date <= rows[i].week_start + 6
       IN  /\ \A i \in DOMAIN rows : Weekday(rows[i].week_start) = 0
           /\ \A w \in InRange(u, s, e) :
                  /\ \E i \in DOMAIN rows : covers(i, w)
                  /\ \A i, k \in DOMAIN rows : (covers(i, w) /\ covers(k, w)) => i = k
           /\ \A i, k \in DOMAIN rows :
                  ( /\ rows[i].week_start = rows[k].week_start
                    /\ rows[i].workout_type = rows[k].workout_type ) => i = k

\* one row for two workouts of one sport on different days of one week
C7_Witness ==
    /\ ret.op = "get_weekly_volume_by_sport"
    /\ Len(ret.value) = 1
    /\ \E w, o \in InRange(ret.args.user_id, ret.args.start_date, ret.args.end_date) :
          /\ w.workout_date < o.workout_date
          /\ SportOf(w) = SportOf(o)

\* C8: each row's total_duration_sec is the sum of duration_seconds, and its
\* total_distance_km the sum of distance_m over 1000, over exactly the user's
\* workouts of that sport in that week dated within the range; the rows come
\* by ascending week_start, then sport name.
C8_WeeklyTotalsAndOrder ==
    ret.op = "get_weekly_volume_by_sport"
    => LET u == ret.args.user_id
           s == ret.args.start_date
           e == ret.args.end_date
           rows == ret.value
           members(i) == InWeek(u, s, e, rows[i].week_start, rows[i].workout_type)
           meters(w) == IF w.distance_m = None THEN 0 ELSE Val(w.distance_m)
       IN  /\ \A i \in DOMAIN rows :
                  /\ rows[i].total_duration_sec =
                         SumOver(members(i), [w \in members(i) |-> w.duration_seconds])
                  /\ rows[i].total_distance_km * 1000 =
                         SumOver(members(i), [w \in members(i) |-> meters(w)])
           /\ \A i, k \in DOMAIN rows :
                  i < k => \/ rows[i].week_start < rows[k].week_start
                           \/ /\ rows[i].week_start = rows[k].week_start
                              /\ NameRank(rows[i].workout_type) < NameRank(rows[k].workout_type)

\* two rows, the earlier week first although its sport name sorts later
C8_Witness ==
    /\ ret.op = "get_weekly_volume_by_sport"
    /\ Len(ret.value) = 2
    /\ ret.value[1].week_start < ret.value[2].week_start
    /\ NameRank(ret.value[1].workout_type) > NameRank(ret.value[2].workout_type)
    /\ ret.value[1].total_distance_km # ret.value[2].total_distance_km

\* C9: get_total_distance_per_gear returns its rows by descending total
\* distance, rows with equal totals (several at 0 included) by ascending
\* gear id.
C9_GearRowsOrdered ==
    ret.op = "get_total_distance_per_gear"
    => \A i, k \in DOMAIN ret.value :
          i < k => \/ ret.value[i].total_distance_km > ret.value[k].total_distance_km
                   \/ /\ ret.value[i].total_distance_km = ret.value[k].total_distance_km
                      /\ ret.value[i].gear_id < ret.value[k].gear_id

\* the gear with the larger total comes first although its id is the larger
C9_Witness ==
    /\ ret.op = "get_total_distance_per_gear"
    /\ Len(ret.value) = 2
    /\ ret.value[1].total_distance_km > ret.value[2].total_distance_km
    /\ ret.value[1].gear_id > ret.value[2].gear_id

\* C10: get_total_distance_per_gear(user) returns exactly one row per gear
\* item the user owns, whose total is the sum of the distances of the workouts
\* joined to that gear by a Workout_Gear row (0 without any); a workout's own
\* gear_id column adds nothing.
C10_GearTotalsFromJoinRows ==
    ret.op = "get_total_distance_per_gear"
    => LET u == Val(ret.args)
           rows == ret.value
           owned == { g.gear_id : g \in { x \in Gear : x.user_id = u } }
           joined(gid) ==
               { w \in Workouts :
                   WorkoutGearRow(w.workout_id, gid) \in BagToSet(Workout_Gear) }
           meters(w) == IF w.distance_m = None THEN 0 ELSE Val(w.distance_m)
       IN  /\ { rows[i].gear_id : i \in DOMAIN rows } = owned
           /\ Len(rows) = Cardinality(owned)
           /\ \A i \in DOMAIN rows :
                  rows[i].total_distance_km * 1000 =
                      SumOver(joined(rows[i].gear_id),
                              [w \in joined(rows[i].gear_id) |-> meters(w)])

\* a gear item that is a workout's primary gear_id without a join row totals
\* 0, while another user's gear has a joined workout
C10_Witness ==
    /\ ret.op = "get_total_distance_per_gear"
    /\ \E i \in DOMAIN ret.value :
          /\ ret.value[i].total_distance_km = 0
          /\ \E w \in Workouts : w.gear_id = Some(ret.value[i].gear_id)
    /\ \E g \in Gear : g.user_id # Val(ret.args)

\* C11: fetch_workouts called with a start_date later than its end_date
\* returns normally with the empty sequence, whatever is stored; so does
\* get_weekly_volume_by_sport.
C11_EmptyRangeReturnsNoRows ==
    /\ ( /\ ret.op = "fetch_workouts"
         /\ ret.args.start_date # None
         /\ ret.args.end_date # None
         /\ Val(ret.args.start_date) > Val(ret.args.end_date) )
       => (ret.ok /\ ret.value = <<>>)
    /\ ( /\ ret.op = "get_weekly_volume_by_sport"
         /\ ret.args.start_date > ret.args.end_date )
       => (ret.ok /\ ret.value = <<>>)

\* fetch_workouts over a reversed range for a user who has a workout on each
\* of the two bounding days
C11_Witness ==
    /\ ret.op = "fetch_workouts"
    /\ ret.args.start_date # None
    /\ ret.args.end_date # None
    /\ Val(ret.args.start_date) > Val(ret.args.end_date)
    /\ \E w \in Workouts :
          w.user_id = ret.args.user_id /\ w.workout_date = Val(ret.args.start_date)
    /\ \E w \in Workouts :
          w.user_id = ret.args.user_id /\ w.workout_date = Val(ret.args.end_date)

\* the workouts fetch_workouts is to return: the user's, of the named sport
\* when a name other than 'All' is given (None and the empty string give no
\* name), dated on or after start and on or before end when those are given
Wanted(user_id, workout_type_name, start_date, end_date) ==
    { w \in Workouts :
        /\ w.user_id = user_id
        /\ (workout_type_name \notin { None, Some(""), Some("All") })
              => SportOf(w) = Val(workout_type_name)
        /\ start_date # None => w.workout_date >= Val(start_date)
        /\ end_date # None => w.workout_date <= Val(end_date) }

\* C12: fetch_workouts(user, sport, start, end) returns exactly the user's
\* workouts that pass every supplied filter, each once: the sport name when
\* one is given and is not 'All', date >= start and date <= end when given
\* (both inclusive); an omitted filter restricts nothing.
C12_FetchReturnsExactlyTheFiltered ==
    ret.op = "fetch_workouts"
    => LET wanted == Wanted(ret.args.user_id, ret.args.workout_type_name,
                            ret.args.start_date, ret.args.end_date)
       IN  /\ { ret.value[i].workout_id : i \in DOMAIN ret.value }
                  = { w.workout_id : w \in wanted }
           /\ Len(ret.value) = Cardinality(wanted)
           /\ \A i \in DOMAIN ret.value :
                  \E w \in wanted :
                      /\ w.workout_id = ret.value[i].workout_id
                      /\ w.workout_date = ret.value[i].workout_date
                      /\ SportOf(w) = ret.value[i].workout_type

\* 'All' with an end date: the workout on the end date is returned, the later
\* one of the same user is not
C12_Witness ==
    /\ ret.op = "fetch_workouts"
    /\ ret.args.workout_type_name = Some("All")
    /\ ret.args.start_date = None
    /\ ret.args.end_date # None
    /\ Len(ret.value) = 1
    /\ ret.value[1].workout_date = Val(ret.args.end_date)
    /\ \E w \in Workouts :
          /\ w.user_id = ret.args.user_id
          /\ w.workout_date > Val(ret.args.end_date)

\* C13: the sequence fetch_workouts returns is sorted by workout date
\* descending and, within one date, by start time descending with the
\* workouts that have no start time after all those that have one.
C13_FetchOrder ==
    ret.op = "fetch_workouts"
    => \A i, k \in DOMAIN ret.value :
          i < k =>
            \/ ret.value[i].workout_date > ret.value[k].workout_date
            \/ /\ ret.value[i].workout_date = ret.value[k].workout_date
               /\ \/ ret.value[k].start_time = None
                  \/ /\ ret.value[i].start_time # None
                     /\ Val(ret.value[i].start_time) >= Val(ret.value[k].start_time)

\* two workouts of one date, the one with a start time listed before the one
\* without, although it was stored later
C13_Witness ==
    /\ ret.op = "fetch_workouts"
    /\ Len(ret.value) = 2
    /\ ret.value[1].workout_date = ret.value[2].workout_date
    /\ ret.value[1].start_time # None
    /\ ret.value[2].start_time = None
    /\ ret.value[1].workout_id > ret.value[2].workout_id

\* C14: get_user_id_by_username and get_workout_type_id_by_name return
\* normally in every case: the id of the row whose name equals the argument
\* exactly when there is one, None when there is none; a name that differs
\* from a stored name only in letter case is not found.
C14_LookupsMatchExactly ==
    /\ ret.op = "get_user_id_by_username"
       => /\ ret.ok
          /\ \A u \in Users : u.username = ret.args => ret.value = Some(u.user_id)
          /\ (\A u \in Users : u.username # ret.args) => ret.value = None
    /\ ret.op = "get_workout_type_id_by_name"
       => /\ ret.ok
          /\ \A t \in Workout_Types :
                t.name = ret.args => ret.value = Some(t.workout_type_id)
          /\ (\A t \in Workout_Types : t.name # ret.args) => ret.value = None

\* 'john' is not found although 'John' is stored
C14_Witness ==
    /\ ret.op = "get_user_id_by_username"
    /\ ret.args = "john"
    /\ ret.value = None
    /\ \E u \in Users : u.username = "John"

\* C20: in every reachable state, after clear_user_data included, every
\* Workout_Gear row names a workout and a gear item that are both stored:
\* deleting a workout or a gear item leaves no join row behind.
C20_NoDanglingJoinRows ==
    \A r \in BagToSet(Workout_Gear) :
        /\ \E w \in Workouts : w.workout_id = r.workout_id
        /\ \E g \in Gear : g.gear_id = r.gear_id

\* clear_user_data for a user whose gear was joined to another user's
\* workout: that workout is still stored, the join row is gone
C20_Witness ==
    /\ ret.op = "clear_user_data"
    /\ ret.ok
    /\ \E r \in BagToSet(prev.Workout_Gear) :
          /\ \E w \in Workouts : w.workout_id = r.workout_id
          /\ \E g \in prev.Gear : g.gear_id = r.gear_id /\ g.user_id = Val(ret.args)
          /\ ~BagIn(r, Workout_Gear)

\* the functions of the query layer that read, and those that write
ReadOps ==
    { "list_users", "list_workout_types", "get_user_id_by_username",
      "get_workout_type_id_by_name", "get_recent_workouts",
      "get_weekly_volume_by_sport", "get_total_distance_per_gear",
      "fetch_workouts", "fetch_run_workouts_view", "fetch_bike_workouts_view",
      "fetch_swim_workouts_view" }

WriteOps == { "insert_workout", "insert_gear", "attach_gear_to_workout" }

\* the five tables are as they were when the last call started
TablesAsBefore ==
    /\ Users = prev.Users
    /\ Locations = prev.Locations
    /\ Gear = prev.Gear
    /\ Workouts = prev.Workouts
    /\ Workout_Gear = prev.Workout_Gear

\* C16: a write of the query layer that returns normally has committed what
\* it wrote (the new row is stored under the returned id; every pair of the
\* attach is stored) and rolled nothing back; one that raises leaves the five
\* tables exactly as they were before the call.
C16_CommitOnReturnRollbackOnRaise ==
    ret.op \in WriteOps
    => /\ ~ret.ok => TablesAsBefore
       /\ ret.ok => \A i \in DOMAIN log : log[i] # "rollback"
       /\ (ret.ok /\ ret.op = "insert_workout")
            => \E w \in Workouts \ prev.Workouts : w.workout_id = ret.value
       /\ (ret.ok /\ ret.op = "insert_gear")
            => \E g \in Gear \ prev.Gear : g.gear_id = ret.value
       /\ (ret.ok /\ ret.op = "attach_gear_to_workout")
            => \A g \in Range(ret.args.gear_ids) :
                  BagIn(WorkoutGearRow(ret.args.workout_id, g), Workout_Gear)

\* attach_gear_to_workout raises on its second statement after the first one
\* had inserted a pair that was not stored before
C16_Witness ==
    /\ ret.op = "attach_gear_to_workout"
    /\ ~ret.ok
    /\ log = <<"connect", "execute", "execute", "rollback", "close">>
    /\ \E g \in Gear :
          /\ g.gear_id \in Range(ret.args.gear_ids)
          /\ ~BagIn(WorkoutGearRow(ret.args.workout_id, g.gear_id), prev.Workout_Gear)

\* the number of events e in a log
Count(events, e) == Cardinality({ i \in DOMAIN events : events[i] = e })

\* the number of connections open after the first i events of a log
OpenAfter(events, i) ==
    Cardinality({ k \in 1 .. i : events[k] = "connect" })
      - Cardinality({ k \in 1 .. i : events[k] = "close" })

\* C17 as stated: every call of the query layer has at most one connection
\* open at any point, opens at most one connection and executes at most one
\* statement.
C17_SingleConnectionSingleStatement ==
    ret.op \in ReadOps \cup WriteOps
    => /\ \A i \in DOMAIN log : OpenAfter(log, i) <= 1
       /\ Count(log, "connect") <= 1
       /\ Count(log, "execute") <= 1

\* C17, amended: during a call of the query layer at most one connection is
\* open at any point and none is left open at its end.  The reads and
\* insert_gear open one connection and execute one statement.
\* insert_workout opens one connection for the sport lookup and, when the
\* sport is known, a second one for the INSERT after the first is closed,
\* one statement on each.  attach_gear_to_workout opens no connection for an
\* empty list and otherwise one connection, on which it executes one INSERT
\* per distinct gear id, stopping at the first that raises.
C17_OneConnectionAtATime ==
    ret.op \in ReadOps \cup WriteOps
    => /\ \A i \in DOMAIN log : OpenAfter(log, i) \in { 0, 1 }
       /\ OpenAfter(log, Len(log)) = 0
       /\ ret.op \in ReadOps \cup { "insert_gear" }
            => (Count(log, "connect") = 1 /\ Count(log, "execute") = 1)
       /\ ret.op = "insert_workout"
            => /\ Count(log, "connect") = Count(log, "execute")
               /\ \A i \in DOMAIN log : log[i] = "execute" => log[i - 1] = "connect"
               /\ Count(log, "connect") =
                     IF \E t \in Workout_Types : t.name = ret.args.workout_type_name
                     THEN 2 ELSE 1
       /\ ret.op = "attach_gear_to_workout"
            => IF ret.args.gear_ids = <<>> THEN log = <<>>
               ELSE /\ Count(log, "connect") = 1
                    /\ Count(log, "execute") \in 1 .. Cardinality(Range(ret.args.gear_ids))
                    /\ ret.ok => Count(log, "execute") = Cardinality(Range(ret.args.gear_ids))

\* an insert_workout that stored its row: two connections, one after the
\* other, a statement on each
C17_Witness ==
    /\ ret.op = "insert_workout"
    /\ ret.ok
    /\ log = <<"connect", "execute", "commit", "close",
               "connect", "execute", "commit", "close">>

\* C19: a stored workout is immutable and the reads write nothing: after any
\* call of the query layer every Workouts row stored before the call is
\* stored unchanged, and after a read all tables and id counters are as they
\* were before it.
C19_WorkoutsImmutableReadsWriteNothing ==
    /\ ret.op \in ReadOps \cup WriteOps => \A w \in prev.Workouts : w \in Workouts
    /\ ret.op \in ReadOps => (ret.ok /\ Snapshot = prev)

\* a second workout of the same user and date is stored beside the first,
\* which has a join row
C19_Witness ==
    /\ ret.op = "insert_workout"
    /\ ret.ok
    /\ \E w \in prev.Workouts :
          /\ w.user_id = ret.args.user_id
          /\ w.workout_date = ret.args.workout_date
          /\ \E r \in BagToSet(Workout_Gear) : r.workout_id = w.workout_id

\* a form with every optional metric entered as zero and the start time and
\* the notes left blank
AllBlank(form) ==
    /\ form.elevation_gain_m = 0
    /\ form.calories_kcal = 0
    /\ form.avg_hr = 0
    /\ form.avg_cadence = 0
    /\ form.avg_power_w_val = 0
    /\ form.start_time_str \in { "", "  " }
    /\ form.notes \in { "", "  " }

\* the ids of the stored workouts that were saved from such a form
BlankWorkoutIds ==
    { e.workout_id : e \in { f \in forms : AllBlank(f.form) } } \cap WorkoutIds

\* every saved all-blank form has its workout stored with the seven fields null
BlankStoredAsNull ==
    \A e \in forms :
        AllBlank(e.form) =>
            \E w \in Workouts :
                /\ w.workout_id = e.workout_id
                /\ w.elevation_gain_m = None
                /\ w.calories_kcal = None
                /\ w.avg_heart_rate_bpm = None
                /\ w.avg_cadence = None
                /\ w.avg_power_w = None
                /\ w.start_time = None
                /\ w.notes = None

\* fetch_workouts and the per-sport listings return the fields of such a
\* workout that they have columns for as None
BlankListedAsAbsent ==
    /\ ret.op = "fetch_workouts" =>
          \A i \in DOMAIN ret.value :
              ret.value[i].workout_id \in BlankWorkoutIds =>
                  /\ ret.value[i].start_time = None
                  /\ ret.value[i].notes = None
    /\ ret.op = "fetch_run_workouts_view" =>
          \A i \in DOMAIN ret.value :
              ret.value[i].workout_id \in BlankWorkoutIds =>
                  /\ ret.value[i].start_time = None
                  /\ ret.value[i].elevation_gain_m = None
                  /\ ret.value[i].calories_kcal = None
                  /\ ret.value[i].avg_heart_rate_bpm = None
                  /\ ret.value[i].avg_cadence_spm = None
                  /\ ret.value[i].notes = None
    /\ ret.op = "fetch_bike_workouts_view" =>
          \A i \in DOMAIN ret.value :
              ret.value[i].workout_id \in BlankWorkoutIds =>
                  /\ ret.value[i].start_time = None
                  /\ ret.value[i].elevation_gain_m = None
                  /\ ret.value[i].calories_kcal = None
                  /\ ret.value[i].avg_heart_rate_bpm = None
                  /\ ret.value[i].avg_cadence_rpm = None
                  /\ ret.value[i].avg_power_w = None
                  /\ ret.value[i].notes = None
    /\ ret.op = "fetch_swim_workouts_view" =>
          \A i \in DOMAIN ret.value :
              ret.value[i].workout_id \in BlankWorkoutIds =>
                  /\ ret.value[i].start_time = None
                  /\ ret.value[i].calories_kcal = None
                  /\ ret.value[i].avg_heart_rate_bpm = None
                  /\ ret.value[i].notes = None

\* a get_recent_workouts result all of whose rows are of such workouts (its
\* rows carry no workout id): the user has no other workout stored
RecentOfBlankOnly ==
    /\ ret.op = "get_recent_workouts"
    /\ \A w \in Workouts :
          w.user_id = ret.args.user_id => w.workout_id \in BlankWorkoutIds

\* C15 as stated: a workout saved from a form with every optional metric zero
\* and start time and notes blank is stored with those fields null, and every
\* later listing, get_recent_workouts included, shows them as absent, never
\* as zero or as an empty string.
C15_BlankShownAbsentInEveryListing ==
    /\ BlankStoredAsNull
    /\ BlankListedAsAbsent
    /\ RecentOfBlankOnly =>
          \A i \in DOMAIN ret.value :
              /\ ret.value[i].start_time = None
              /\ ret.value[i].notes = None

\* C15, amended: such a workout is stored with those fields null; fetch_workouts
\* and the per-sport listings show the ones they return as absent;
\* get_recent_workouts shows the notes as absent and the start time as the
\* empty string.
C15_BlankStoredNullListedAbsent ==
    /\ BlankStoredAsNull
    /\ BlankListedAsAbsent
    /\ RecentOfBlankOnly =>
          \A i \in DOMAIN ret.value :
              /\ ret.value[i].start_time = Some(<<>>)
              /\ ret.value[i].notes = None

\* the bike listing returns a workout saved from an all-blank form (its texts
\* were spaces) next to one saved from a filled form, whose power is shown
C15_Witness ==
    /\ ret.op = "fetch_bike_workouts_view"
    /\ \E i, k \in DOMAIN ret.value :
          /\ ret.value[i].workout_id \in BlankWorkoutIds
          /\ ret.value[k].workout_id \notin BlankWorkoutIds
          /\ ret.value[k].avg_power_w # None
          /\ ret.value[k].start_time # None

\* the handler's attach call raised for a workout that was stored when the
\* call started
AttachFailedAfterInsert ==
    /\ ret.op = "attach_gear_to_workout"
    /\ ~ret.ok
    /\ \E w \in prev.Workouts : w.workout_id = ret.args.workout_id

\* the dashboard process ended after insert_workout had returned and before
\* attach_gear_to_workout was called
StoppedAfterInsert ==
    /\ ret.op = "insert_workout"
    /\ ret.ok
    /\ pending = None

\* C18: insert_workout and attach_gear_to_workout are two transactions and
\* nothing compensates: when the handler's attach raises, or the process ends
\* after the insert has returned, the workout the insert committed is still
\* stored, as inserted, and has no Workout_Gear row.
C18_NoCompensationAfterFailedAttach ==
    /\ AttachFailedAfterInsert =>
          /\ \E w \in Workouts : w.workout_id = ret.args.workout_id /\ w \in prev.Workouts
          /\ \A r \in BagToSet(Workout_Gear) : r.workout_id # ret.args.workout_id
    /\ StoppedAfterInsert =>
          /\ \E w \in Workouts : w.workout_id = ret.value
          /\ \A r \in BagToSet(Workout_Gear) : r.workout_id # ret.value

\* the attach of the selected gear raised: the workout is stored with the
\* first selected item as its primary gear and with no gear attached
C18_Witness ==
    /\ AttachFailedAfterInsert
    /\ Len(ret.args.gear_ids) >= 1
    /\ \E w \in Workouts :
          /\ w.workout_id = ret.args.workout_id
          /\ w.gear_id = Some(ret.args.gear_ids[1])
    /\ \A r \in BagToSet(Workout_Gear) : r.workout_id # ret.args.workout_id

\* the join rows of the bag `rows` whose workout, among `workouts`, is or is
\* not owned by user_id
JoinRowsOf(rows, workouts, user_id, owned) ==
    BagRestrict(rows,
                { r \in BagToSet(rows) :
                    \E w \in workouts : /\ w.workout_id = r.workout_id
                                        /\ (w.user_id = user_id) = owned })

\* C21: after clear_user_data(u) none of u's workouts, none of u's gear and
\* no join row of u's workouts is stored, while the workouts, the gear and the
\* join rows of every other user, and the table Users, are as they were before
\* the call (Workout_Types is never written).
C21_ClearRemovesOnlyTheUsersRows ==
    ret.op = "clear_user_data" =>
        LET u == Val(ret.args)
        IN  /\ \A w \in Workouts : w.user_id # u
            /\ \A g \in Gear : g.user_id # u
            /\ JoinRowsOf(Workout_Gear, prev.Workouts, u, TRUE) = EmptyBag
            /\ { w \in Workouts : w.user_id # u } = { w \in prev.Workouts : w.user_id # u }
            /\ { g \in Gear : g.user_id # u } = { g \in prev.Gear : g.user_id # u }
            /\ JoinRowsOf(Workout_Gear, prev.Workouts, u, FALSE)
                 = JoinRowsOf(prev.Workout_Gear, prev.Workouts, u, FALSE)
            /\ Users = prev.Users

\* the users named 'cam' and the locations named 'Case Track' among the rows
CamUsers(users) == { u \in users : u.username = "cam" }

CaseTracks(locations) == { l \in locations : l.name = "Case Track" }

\* C22: no two users share a username in any state; after any run of the
\* seeding script there is exactly one user 'cam' and exactly one location
\* 'Case Track'; a run that finds the user (the location) stored leaves Users
\* (Locations) as it was; and every run adds exactly one workout, owned by
\* 'cam', to the workouts stored before it.
C22_SeedingReusesUserAndLocation ==
    /\ \A a, b \in Users : a.username = b.username => a = b
    /\ ret.op = "seed_demo_user_and_workout" =>
          /\ Cardinality(CamUsers(Users)) = 1
          /\ Cardinality(CaseTracks(Locations)) = 1
          /\ CamUsers(prev.Users) # {} => Users = prev.Users
          /\ CaseTracks(prev.Locations) # {} => Locations = prev.Locations
          /\ \E w \in Workouts \ prev.Workouts :
                /\ Workouts = prev.Workouts \cup { w }
                /\ \A u \in CamUsers(Users) : w.user_id = u.user_id
                /\ w.location_id # None
                /\ \A l \in CaseTracks(Locations) : Val(w.location_id) = l.location_id

\* a rerun of the script: 'cam' and 'Case Track' were stored before it, with
\* a workout of an earlier run
C22_Witness ==
    /\ ret.op = "seed_demo_user_and_workout"
    /\ CamUsers(prev.Users) # {}
    /\ CaseTracks(prev.Locations) # {}
    /\ \E w \in prev.Workouts : w.location_id # None
    /\ Cardinality(Workouts) = Cardinality(prev.Workouts) + 1

\* C23: whatever a call of the query layer did, returned or raised, every
\* connection it opened has been closed when it ends: the events of the call
\* pair each connect with a later close, and the last event of a call that
\* opened a connection is a close.
C23_ConnectionsReleasedOnEveryExit ==
    ret.op \in ReadOps \cup WriteOps
    => /\ Count(log, "connect") = Count(log, "close")
       /\ \A i \in DOMAIN log : OpenAfter(log, i) >= 0
       /\ log # <<>> => log[Len(log)] = "close"

\* an insert_workout whose INSERT the database refused: the lookup's
\* connection and the insert's connection were both opened and both closed
C23_Witness ==
    /\ ret.op = "insert_workout"
    /\ ~ret.ok
    /\ ret.error \in { "ForeignKeyViolation", "DataError" }
    /\ Count(log, "connect") = 2
    /\ Count(log, "rollback") = 1

\* the gear attached to a workout by the join rows
Attached(rows, workout_id) ==
    { r.gear_id : r \in { x \in BagToSet(rows) : x.workout_id = workout_id } }

\* the join rows of the workouts other than workout_id
JoinRowsOfOthers(rows, workout_id) ==
    BagRestrict(rows, { r \in BagToSet(rows) : r.workout_id # workout_id })

\* C24: after attach_gear_to_workout(w, ids) has returned, the gear attached
\* to w is the gear attached before united with the ids given, the join rows
\* of every other workout are as before, and a call with an empty list has
\* opened no connection and changed nothing.
C24_AttachAddsExactlyTheGivenIds ==
    (ret.op = "attach_gear_to_workout" /\ ret.ok)
    => /\ Attached(Workout_Gear, ret.args.workout_id)
            = Attached(prev.Workout_Gear, ret.args.workout_id)
                \cup Range(ret.args.gear_ids)
       /\ JoinRowsOfOthers(Workout_Gear, ret.args.workout_id)
            = JoinRowsOfOthers(prev.Workout_Gear, ret.args.workout_id)
       /\ ret.args.gear_ids = <<>> => (log = <<>> /\ Snapshot = prev)

\* a call with two distinct ids, one of them attached to the workout already
C24_Witness ==
    /\ ret.op = "attach_gear_to_workout"
    /\ ret.ok
    /\ Cardinality(Range(ret.args.gear_ids)) = 2
    /\ Cardinality(Attached(prev.Workout_Gear, ret.args.workout_id)) = 1
    /\ Attached(prev.Workout_Gear, ret.args.workout_id) \subseteq Range(ret.args.gear_ids)
    /\ Cardinality(Attached(Workout_Gear, ret.args.workout_id)) = 2

\* workout a is listed strictly before workout b: the later date first, on
\* one date the later start time first and the workouts without one last
NewerThan(a, b) ==
    \/ a.workout_date > b.workout_date
    \/ /\ a.workout_date = b.workout_date
       /\ a.start_time # None
       /\ (b.start_time = None \/ Val(a.start_time) > Val(b.start_time))

\* the row is the listing's row of workout w: its date, sport, duration,
\* effort and notes, and its start time as a text, empty when w has none
RecentRowOf(row, w) ==
    /\ row.workout_date = w.workout_date
    /\ row.duration_seconds = w.duration_seconds
    /\ row.effort_level = w.effort_level
    /\ row.notes = w.notes
    /\ \E t \in Workout_Types : t.workout_type_id = w.workout_type_id
                                /\ t.name = row.workout_type
    /\ IF w.start_time = None THEN row.start_time = Some(<<>>)
       ELSE row.start_time = Some(time_text(Val(w.start_time)))

\* C25: get_recent_workouts(user, limit) returns min(limit, n) rows, n the
\* number of the user's workouts; they are the rows of distinct workouts of
\* that user, no row is placed after the row of a workout that sorts behind
\* it, no workout left out sorts before a workout returned, and a workout
\* without start time has the empty string as its start time.
C25_RecentAreTheNewestOfTheUser ==
    ret.op = "get_recent_workouts" =>
        LET own == { w \in Workouts : w.user_id = ret.args.user_id }
            n == IF ret.args.limit < Cardinality(own) THEN ret.args.limit
                 ELSE Cardinality(own)
        IN  /\ Len(ret.value) = n
            /\ \E f \in [1 .. n -> own] :
                  /\ \A i, k \in 1 .. n : i # k => f[i] # f[k]
                  /\ \A i \in 1 .. n : RecentRowOf(ret.value[i], f[i])
                  /\ \A i, k \in 1 .. n : i < k => ~NewerThan(f[k], f[i])
                  /\ \A w \in own \ { f[i] : i \in 1 .. n } :
                        \A i \in 1 .. n : ~NewerThan(w, f[i])

\* the user has two workouts; with limit 1 the one of the later date, which
\* has no start time, is returned with the empty string and the one of the
\* earlier date, which has a start time, is left out
C25_Witness ==
    /\ ret.op = "get_recent_workouts"
    /\ ret.args.limit = 1
    /\ Len(ret.value) = 1
    /\ ret.value[1].start_time = Some(<<>>)
    /\ \E w \in Workouts : /\ w.user_id = ret.args.user_id
                           /\ w.start_time # None
                           /\ w.workout_date < ret.value[1].workout_date

\* the calls the menu actions of the command-line tool make
MenuOps ==
    { "list_workout_types", "insert_workout", "get_recent_workouts",
      "get_weekly_volume_by_sport", "get_total_distance_per_gear" }

\* the user id a call was made for (None for list_workout_types)
CalledFor ==
    CASE ret.op \in { "insert_workout", "get_recent_workouts",
                      "get_weekly_volume_by_sport" } -> Some(ret.args.user_id)
      [] ret.op = "get_total_distance_per_gear" -> ret.args
      [] OTHER -> None

\* a menu action has only run once the username was resolved, for the id of
\* a stored user, and a lookup that found nothing leaves the tool prompting
MenuOnlyAfterResolution ==
    /\ ret.op \in MenuOps =>
          /\ cli.user_id # None
          /\ Val(cli.user_id) \in UserIds
          /\ CalledFor # None => CalledFor = cli.user_id
    /\ cli.pc # "prompt" => cli.user_id # None
    /\ (ret.op = "get_user_id_by_username" /\ ret.value = None) =>
          (cli.pc = "prompt" /\ cli.user_id = None)

\* the resolved user id never changes, and a step of the tool that read an
\* unrecognised choice made no call and wrote nothing
MenuStep ==
    /\ cli.user_id # None => cli'.user_id = cli.user_id
    /\ ( /\ cli' # cli
         /\ cli'.choice # None
         /\ Val(cli'.choice) \notin { "0", "1", "2", "3", "4" } )
       => UNCHANGED <<tables, seq, ret, prev, log>>

\* the tool has ended only after choice 0
EndedOnlyOnChoice0 == cli.pc = "ended" => cli.choice = Some("0")

\* C26: in the command-line tool no menu operation runs before a username
\* was resolved to the id of a stored user, a not-found result repeats the
\* prompt, the user id stays fixed afterwards, an unrecognised choice performs
\* no query, and the menu loop ends only on choice 0.
C26_MenuAfterResolutionEndsOnChoice0 ==
    /\ [](MenuOnlyAfterResolution /\ EndedOnlyOnChoice0)
    /\ [][MenuStep]_vars

\* C27: a call of attach_gear_to_workout that raises stores none of its join
\* rows, the rows of the statements that had already run included:
\* Workout_Gear is as it was before the call and the transaction was rolled
\* back.
C27_AttachIsAllOrNothing ==
    (ret.op = "attach_gear_to_workout" /\ ~ret.ok)
    => /\ Workout_Gear = prev.Workout_Gear
       /\ Count(log, "rollback") = 1
       /\ Count(log, "commit") = 0

\* a call with two ids that raised on its second statement, after the first
\* had inserted a row for a gear item not attached to the workout before
C27_Witness ==
    /\ ret.op = "attach_gear_to_workout"
    /\ ~ret.ok
    /\ Count(log, "execute") = 2
    /\ \E g \in Range(ret.args.gear_ids) :
          /\ g \in GearIds
          /\ g \notin Attached(prev.Workout_Gear, ret.args.workout_id)
          /\ ret.args.workout_id \in WorkoutIds

\* the handler, or the generator's step, has completed without error: its
\* attach call has returned
SavedWithGear ==
    /\ ret.op = "attach_gear_to_workout"
    /\ ret.ok
    /\ pending = None

\* C28: when the dashboard's add-workout action or the generator's step for
\* a workout has completed without error, the workout's primary gear, if it
\* has one, is attached to it in Workout_Gear, and every gear item attached
\* to it is owned by the workout's user.
C28_PrimaryGearAttachedAndOwned ==
    SavedWithGear =>
        \A w \in { x \in Workouts : x.workout_id = ret.args.workout_id } :
            /\ w.gear_id # None =>
                  Val(w.gear_id) \in Attached(Workout_Gear, w.workout_id)
            /\ \A gid \in Attached(Workout_Gear, w.workout_id) :
                  \E g \in Gear : g.gear_id = gid /\ g.user_id = w.user_id

\* two users own gear, and a workout has been saved with its user's item as
\* primary gear and attached
C28_Witness ==
    /\ SavedWithGear
    /\ \E g, h \in Gear : g.user_id # h.user_id
    /\ \E w \in Workouts :
          /\ w.workout_id = ret.args.workout_id
          /\ w.gear_id # None
          /\ Attached(Workout_Gear, w.workout_id) # {}

\* the workouts user u owns
OwnWorkouts(u) == { w \in Workouts : w.user_id = u }

\* C29: what a read that takes a user id returns is made of that user's rows
\* alone.  A row of get_recent_workouts or fetch_workouts is one of the
\* user's workouts; a row of get_weekly_volume_by_sport totals the user's
\* workouts of that week and sport; a row of get_total_distance_per_gear is
\* one of the user's gear items with the summed distance of the user's
\* workouts joined to it.  Another user's workouts, gear and join rows add
\* nothing to any of them.
C29_ReadsUseOnlyTheUsersRows ==
    /\ ret.op = "get_recent_workouts" =>
          \A i \in DOMAIN ret.value :
              \E w \in OwnWorkouts(ret.args.user_id) : RecentRowOf(ret.value[i], w)
    /\ ret.op = "fetch_workouts" =>
          \A i \in DOMAIN ret.value :
              \E w \in OwnWorkouts(ret.args.user_id) :
                  w.workout_id = ret.value[i].workout_id
    /\ ret.op = "get_weekly_volume_by_sport" =>
          \A i \in DOMAIN ret.value :
              LET own == InWeek(ret.args.user_id, ret.args.start_date,
                                ret.args.end_date, ret.value[i].week_start,
                                ret.value[i].workout_type)
              IN  /\ own # {}
                  /\ ret.value[i].total_duration_sec =
                         SumOver(own, [w \in own |-> w.duration_seconds])
    /\ ret.op = "get_total_distance_per_gear" =>
          LET u == Val(ret.args)
              joined(gid) ==
                  { w \in OwnWorkouts(u) :
                      WorkoutGearRow(w.workout_id, gid) \in BagToSet(Workout_Gear) }
              meters(w) == IF w.distance_m = None THEN 0 ELSE Val(w.distance_m)
          IN  \A i \in DOMAIN ret.value :
                  /\ \E g \in Gear : g.gear_id = ret.value[i].gear_id /\ g.user_id = u
                  /\ ret.value[i].total_distance_km * 1000 =
                         SumOver(joined(ret.value[i].gear_id),
                                 [w \in joined(ret.value[i].gear_id) |-> meters(w)])

\* the user's workouts of one sport in the seven days from week_start on,
\* whether the range holds them or not
WholeWeek(u, week_start, sport) ==
    { w \in OwnWorkouts(u) :
        /\ SportOf(w) = sport
        /\ week_start <= w.workout_date
        /\ w.workout_date <= week_start + 6 }

\* C30: a row of get_weekly_volume_by_sport(user, start, end) for a week the
\* range holds only a part of totals the workouts of that week dated from
\* start to end, and none of the week's workouts before start or after end;
\* its week_start is the week's Monday, which may lie before start, by six
\* days at most, and never after end.
C30_PartialWeekSumsOnlyTheRange ==
    ret.op = "get_weekly_volume_by_sport"
    => LET u == ret.args.user_id
           s == ret.args.start_date
           e == ret.args.end_date
           rows == ret.value
           week(i) == WholeWeek(u, rows[i].week_start, rows[i].workout_type)
           inside(i) == { w \in week(i) : s <= w.workout_date /\ w.workout_date <= e }
           outside(i) == week(i) \ inside(i)
           seconds(ws) == SumOver(ws, [w \in ws |-> w.duration_seconds])
           meters(ws) ==
               SumOver(ws, [w \in ws |-> IF w.distance_m = None THEN 0
                                         ELSE Val(w.distance_m)])
       IN  \A i \in DOMAIN rows :
              /\ s - rows[i].week_start <= 6
              /\ rows[i].week_start <= e
              /\ rows[i].total_duration_sec = seconds(week(i)) - seconds(outside(i))
              /\ rows[i].total_distance_km * 1000 = meters(week(i)) - meters(outside(i))

\* a range that starts on a Sunday: the row's week_start is the Monday six
\* days before, and the user's workout of the Saturday before, of the same
\* sport, is left out of the row
C30_Witness ==
    /\ ret.op = "get_weekly_volume_by_sport"
    /\ \E i \in DOMAIN ret.value :
          /\ ret.args.start_date - ret.value[i].week_start = 6
          /\ \E w \in WholeWeek(ret.args.user_id, ret.value[i].week_start,
                                ret.value[i].workout_type) :
                /\ w.workout_date < ret.args.start_date
                /\ w.distance_m # None
                /\ Val(w.distance_m) > 0

====
